---- MODULE Spec2Model ----
(***************************************************************************)
(* A model of the PawnyOwl chess position kernel: the mailbox board with   *)
(* its bitboard cache and Zobrist hash, the validating conversion          *)
(* RawBoard -> Board, move well-formedness / semilegality / legality and   *)
(* the make / unmake engine.                                               *)
(*                                                                         *)
(* A Bitboard is modelled as the set of its squares (bit i set <=> square  *)
(* i in the set); the 64-bit hash is modelled as the set of Zobrist keys   *)
(* XORed into it (XOR = symmetric difference), which is the free model of  *)
(* XOR over independent keys: two hashes that are equal here are equal for *)
(* every choice of key values.                                             *)
(***************************************************************************)
EXTENDS Integers, Sequences, FiniteSets, Bags, TLC

\* ------------------------------------------------------- core.rs primitives
White == 0
Black == 1
Colors == {White, Black}

inv(c) == 1 - c

Pawn == 0
King == 1
Knight == 2
Bishop == 3
Rook == 4
Queen == 5

CellNone == 0
WhitePawn == 1
WhiteKing == 2
WhiteKnight == 3
WhiteBishop == 4
WhiteRook == 5
WhiteQueen == 6
BlackPawn == 7
BlackKing == 8
BlackKnight == 9
BlackBishop == 10
BlackRook == 11
BlackQueen == 12
CellCount == 13
Cells == 0 .. (CellCount - 1)

Cell_make(c, p) == IF c = White THEN 1 + p ELSE 7 + p

\* Option<Color> / Option<Piece>: NoColor / NoPiece stand for None.
NoColor == 2
NoPiece == 6
Cell_color(cell) == IF cell = CellNone THEN NoColor ELSE IF cell <= 6 THEN White ELSE Black
Cell_piece(cell) == IF cell = CellNone THEN NoPiece ELSE IF cell <= 6 THEN cell - 1 ELSE cell - 7

FileA == 0
FileB == 1
FileC == 2
FileD == 3
FileE == 4
FileF == 5
FileG == 6
FileH == 7
R8 == 0
R7 == 1
R6 == 2
R5 == 3
R4 == 4
R3 == 5
R2 == 6
R1 == 7

Sq == 0 .. 63
\* Option<Sq>::None
NoSq == 64

Sq_make(file, rank) == rank * 8 + file
Sq_file(s) == s % 8
Sq_rank(s) == s \div 8

\* |a - b| on indexes (usize::abs_diff)
abs_diff(a, b) == IF a >= b THEN a - b ELSE b - a

QueenSide == 0
KingSide == 1
CastlingSides == {QueenSide, KingSide}

\* CastlingRights is a 4-bit set; it is modelled as the set of its set bit
\* positions, bit to_index(c, s) = 2c + s.
CastlingRights_to_index(c, s) == 2 * c + s
CastlingRights_EMPTY == {}
CastlingRights_FULL == {0, 1, 2, 3}
\* faulty variant: a right of the colour on either side counts
CastlingRights_has_any(cr, c, s) == cr \cap {2 * c, 2 * c + 1} /= {}
CastlingRights_has(cr, c, s) == CastlingRights_to_index(c, s) \in cr
CastlingRights_has_color(cr, c) == cr \cap {2 * c, 2 * c + 1} /= {}
CastlingRights_without(cr, c, s) == cr \ {CastlingRights_to_index(c, s)}
\* faulty variant: only the king-side right is cleared
CastlingRights_unset_color_king(cr, c) == CastlingRights_without(cr, c, KingSide)

CastlingRights_unset_color(cr, c) ==
    CastlingRights_without(CastlingRights_without(cr, c, KingSide), c, QueenSide)

\* ------------------------------------------------------------- geometry.rs
castling_rank(c) == IF c = White THEN R1 ELSE R8
\* the two home ranks taken for each other
double_move_src_rank_swapped(c) == IF c = White THEN R7 ELSE R2
double_move_src_rank(c) == IF c = White THEN R2 ELSE R7
double_move_dst_rank(c) == IF c = White THEN R4 ELSE R5
promote_src_rank(c) == IF c = White THEN R7 ELSE R2
promote_dst_rank(c) == IF c = White THEN R8 ELSE R1
ep_src_rank(c) == IF c = White THEN R5 ELSE R4
ep_dst_rank(c) == IF c = White THEN R6 ELSE R3
pawn_forward_delta(c) == IF c = White THEN -8 ELSE 8
pawn_left_delta(c) == IF c = White THEN -9 ELSE 7
pawn_right_delta(c) == IF c = White THEN -7 ELSE 9

BITBOARD_RANKS == <<{0, 1, 2, 3, 4, 5, 6, 7}, {8, 9, 10, 11, 12, 13, 14, 15},
                    {16, 17, 18, 19, 20, 21, 22, 23}, {24, 25, 26, 27, 28, 29, 30, 31},
                    {32, 33, 34, 35, 36, 37, 38, 39}, {40, 41, 42, 43, 44, 45, 46, 47},
                    {48, 49, 50, 51, 52, 53, 54, 55}, {56, 57, 58, 59, 60, 61, 62, 63}>>
BITBOARD_FILES == <<{0, 8, 16, 24, 32, 40, 48, 56}, {1, 9, 17, 25, 33, 41, 49, 57},
                    {2, 10, 18, 26, 34, 42, 50, 58}, {3, 11, 19, 27, 35, 43, 51, 59},
                    {4, 12, 20, 28, 36, 44, 52, 60}, {5, 13, 21, 29, 37, 45, 53, 61},
                    {6, 14, 22, 30, 38, 46, 54, 62}, {7, 15, 23, 31, 39, 47, 55, 63}>>
\* 0xff << (8 * rank index) and 0x0101010101010101 << file index
bitboard_rank(r) == BITBOARD_RANKS[r + 1]
bitboard_file(f) == BITBOARD_FILES[f + 1]

\* ------------------------------------------------------------- bitboard.rs
Bitboard_EMPTY == {}
Bitboard_FULL == Sq
Bitboard_one(s) == {s}
\* a Bitboard as one stored value: the explicit set of its squares
Bitboard_from(S) == {x : x \in S}
\* a generated table as stored data: the function with every entry computed
Table(f) == f @@ <<>>
\* u64 << by and u64 >> by: bits shifted past either end are lost
Bitboard_shl(bb, by) == {s + by : s \in {x \in bb : x + by <= 63}}
Bitboard_shr(bb, by) == {s - by : s \in {x \in bb : x - by >= 0}}
\* a ^ b on bitboards
BitXor(a, b) == (a \ b) \cup (b \ a)
\* !a on bitboards
BitNot(a) == Sq \ a
\* Bitboard::from(x << off) for a byte x given as its set of bit positions
ByteShl(bits, off) == {i + off : i \in bits}

\* ---------------------------------------------------------------- pawns.rs
advance_forward(c, bb) == IF c = White THEN Bitboard_shr(bb, 8) ELSE Bitboard_shl(bb, 8)
advance_left(c, bb) ==
    LET x == bb \ bitboard_file(FileA)
    IN IF c = White THEN Bitboard_shr(x, 9) ELSE Bitboard_shl(x, 7)
advance_right(c, bb) ==
    LET x == bb \ bitboard_file(FileH)
    IN IF c = White THEN Bitboard_shr(x, 7) ELSE Bitboard_shl(x, 9)

\* ---------------------------------- attack.rs: generated near-attack tables
KING_ATTACKS ==
    Table([s \in Sq |-> Bitboard_from({d \in Sq : /\ d /= s
                                            /\ abs_diff(Sq_file(s), Sq_file(d)) <= 1
                                            /\ abs_diff(Sq_rank(s), Sq_rank(d)) <= 1})])
KNIGHT_ATTACKS ==
    Table([s \in Sq |-> Bitboard_from({d \in Sq : {abs_diff(Sq_file(s), Sq_file(d)),
                                             abs_diff(Sq_rank(s), Sq_rank(d))} = {1, 2}})])
\* the squares a white (black) pawn standing on s attacks
WHITE_PAWN_ATTACKS ==
    Table([s \in Sq |-> Bitboard_from({d \in Sq : /\ Sq_rank(d) + 1 = Sq_rank(s)
                                            /\ abs_diff(Sq_file(s), Sq_file(d)) = 1})])
BLACK_PAWN_ATTACKS ==
    Table([s \in Sq |-> Bitboard_from({d \in Sq : /\ Sq_rank(d) = Sq_rank(s) + 1
                                            /\ abs_diff(Sq_file(s), Sq_file(d)) = 1})])

attack_king(s) == KING_ATTACKS[s]
attack_knight(s) == KNIGHT_ATTACKS[s]
attack_pawn(color, s) == IF color = White THEN WHITE_PAWN_ATTACKS[s] ELSE BLACK_PAWN_ATTACKS[s]

\* --------------------------------------- between.rs: generated ray tables
\* X_NE[s]: the squares other than s on a rook (bishop) line through s;
\* X_GT[s] / X_LT[s]: those of them with a greater / smaller index.
ROOK_NE ==
    Table([s \in Sq |-> Bitboard_from({d \in Sq : d /= s /\ (Sq_file(s) = Sq_file(d)
                                                       \/ Sq_rank(s) = Sq_rank(d))})])
BISHOP_NE ==
    Table([s \in Sq |-> Bitboard_from({d \in Sq : d /= s /\ abs_diff(Sq_file(s), Sq_file(d))
                                                      = abs_diff(Sq_rank(s), Sq_rank(d))})])
ROOK_GT == Table([s \in Sq |-> Bitboard_from({d \in ROOK_NE[s] : d > s})])
ROOK_LT == Table([s \in Sq |-> Bitboard_from({d \in ROOK_NE[s] : d < s})])
BISHOP_GT == Table([s \in Sq |-> Bitboard_from({d \in BISHOP_NE[s] : d > s})])
BISHOP_LT == Table([s \in Sq |-> Bitboard_from({d \in BISHOP_NE[s] : d < s})])

\* faulty variant: the pair is looked up in the order given
between_sort_unsorted(src, dst) == <<src, dst>>

between_sort(src, dst) == IF src < dst THEN <<src, dst>> ELSE <<dst, src>>

bishop_strict(src, dst) ==
    LET p == between_sort(src, dst) IN BISHOP_GT[p[1]] \cap BISHOP_LT[p[2]]

rook_strict(src, dst) ==
    LET p == between_sort(src, dst) IN ROOK_GT[p[1]] \cap ROOK_LT[p[2]]

is_bishop_valid(src, dst) == dst \in BISHOP_NE[src]
is_rook_valid(src, dst) == dst \in ROOK_NE[src]

\* faulty variant: no square counts as lying between two squares
between_none(src, dst) == Bitboard_EMPTY

between(src, dst) ==
    LET p == between_sort(src, dst)
        bishop_gt == BISHOP_GT[p[1]]
        rook_gt == ROOK_GT[p[1]]
    IN IF bishop_gt \cap Bitboard_one(p[2]) /= {} THEN bishop_gt \cap BISHOP_LT[p[2]]
       ELSE IF rook_gt \cap Bitboard_one(p[2]) /= {} THEN rook_gt \cap ROOK_LT[p[2]]
       ELSE Bitboard_EMPTY

\* ------------------------------- attack.rs: magic-bitboard sliding attacks
\* The looked-up attack set of a slider on s for an occupancy: every square
\* of a line through s up to and including the first occupied one.
ROOK_RAY ==
    Table([s \in Sq |-> Table([d \in Sq |->
        Bitboard_from({x \in ROOK_NE[s] \cap ROOK_NE[d] : (s < x /\ x < d) \/ (d < x /\ x < s)})])])
BISHOP_RAY ==
    Table([s \in Sq |-> Table([d \in Sq |->
        Bitboard_from({x \in BISHOP_NE[s] \cap BISHOP_NE[d] : (s < x /\ x < d) \/ (d < x /\ x < s)})])])

\* d is a square of attack::rook(s, occupied) / attack::bishop(s, occupied)
attack_rook_has(s, occupied, d) ==
    d \in ROOK_NE[s] /\ \A x \in ROOK_RAY[s][d] : x \notin occupied
attack_bishop_has(s, occupied, d) ==
    d \in BISHOP_NE[s] /\ \A x \in BISHOP_RAY[s][d] : x \notin occupied
attack_rook(s, occupied) == {d \in ROOK_NE[s] : attack_rook_has(s, occupied, d)}
attack_bishop(s, occupied) == {d \in BISHOP_NE[s] : attack_bishop_has(s, occupied, d)}
\* attack::rook(s, occupied) & bb and attack::bishop(s, occupied) & bb
attack_rook_and(s, occupied, bb) == {d \in bb : attack_rook_has(s, occupied, d)}
attack_bishop_and(s, occupied, bb) == {d \in bb : attack_bishop_has(s, occupied, d)}

\* ------------------------------------------------------------- castling.rs
castling_offset(c) == IF c = White THEN 56 ELSE 0
\* the home squares of the king and of the rook of a castling side
castling_srcs(c, s) ==
    {Sq_make(FileE, castling_rank(c)),
     Sq_make(IF s = KingSide THEN FileH ELSE FileA, castling_rank(c))}
castling_ALL_SRCS == UNION {castling_srcs(c, s) : c \in Colors, s \in CastlingSides}
\* the squares between the king and the rook
castling_pass(c, s) ==
    IF s = KingSide
    THEN {Sq_make(FileF, castling_rank(c)), Sq_make(FileG, castling_rank(c))}
    ELSE {Sq_make(FileB, castling_rank(c)), Sq_make(FileC, castling_rank(c)),
          Sq_make(FileD, castling_rank(c))}

\* -------------------------------------------------------------- zobrist.rs
\* A hash value is the set of the keys XORed into it; every table entry is
\* one key of its own, and the entries of Cell::None are zero.
HashZero == {}
HashXor(a, b) == (a \ b) \cup (b \ a)
zobrist_MOVE_SIDE == {3000}
zobrist_squares(cell, sq) == IF cell = CellNone THEN HashZero ELSE {cell * 64 + sq}
zobrist_enpassant(sq) == {1000 + sq}
CastlingRights_index(cr) ==
    (IF 0 \in cr THEN 1 ELSE 0) + (IF 1 \in cr THEN 2 ELSE 0)
    + (IF 2 \in cr THEN 4 ELSE 0) + (IF 3 \in cr THEN 8 ELSE 0)
zobrist_castling(rights) == {2000 + CastlingRights_index(rights)}
\* the XOR of the four (cell, square) keys a castling move toggles
zobrist_castling_delta(color, side) ==
    LET rank == castling_rank(color)
        king == Cell_make(color, King)
        rook == Cell_make(color, Rook)
        kdst == IF side = KingSide THEN FileG ELSE FileC
        rsrc == IF side = KingSide THEN FileH ELSE FileA
        rdst == IF side = KingSide THEN FileF ELSE FileD
    IN HashXor(HashXor(zobrist_squares(king, Sq_make(FileE, rank)),
                       zobrist_squares(king, Sq_make(kdst, rank))),
               HashXor(zobrist_squares(rook, Sq_make(rsrc, rank)),
                       zobrist_squares(rook, Sq_make(rdst, rank))))

\* ---------------------------------------------------- board.rs: RawBoard
RawBoard_empty ==
    [squares |-> [s \in Sq |-> CellNone], side |-> White, castling |-> CastlingRights_EMPTY,
     ep_src |-> NoSq, move_counter |-> 0, move_number |-> 1]

RawBoard_put(raw, s, cell) == [raw EXCEPT !.squares[s] = cell]

RawBoard_start ==
    LET back == <<Rook, Knight, Bishop, Queen, King, Bishop, Knight, Rook>>
    IN [squares |-> [s \in Sq |->
                       CASE Sq_rank(s) = R2 -> WhitePawn
                         [] Sq_rank(s) = R7 -> BlackPawn
                         [] Sq_rank(s) = R1 -> Cell_make(White, back[Sq_file(s) + 1])
                         [] Sq_rank(s) = R8 -> Cell_make(Black, back[Sq_file(s) + 1])
                         [] OTHER -> CellNone],
        side |-> White, castling |-> CastlingRights_FULL, ep_src |-> NoSq,
        move_counter |-> 0, move_number |-> 1]

RawBoard_zobrist_hash(raw) ==
    LET h0 == IF raw.side = White THEN zobrist_MOVE_SIDE ELSE HashZero
        h1 == IF raw.ep_src /= NoSq THEN HashXor(h0, zobrist_enpassant(raw.ep_src)) ELSE h0
        h2 == HashXor(h1, zobrist_castling(raw.castling))
    IN HashXor(h2, UNION {zobrist_squares(raw.squares[i], i) :
                            i \in {j \in Sq : raw.squares[j] /= CellNone}})

\* ------------------------------------------------------- board.rs: Board
Board_get(b, s) == b.r.squares[s]
Board_color(b, c) == IF c = White THEN b.white ELSE b.black
Board_cell(b, cell) == b.cells[cell]
Board_piece(b, c, p) == Board_cell(b, Cell_make(c, p))
Board_piece_diag(b, c) == Board_piece(b, c, Bishop) \cup Board_piece(b, c, Queen)
Board_piece_line(b, c) == Board_piece(b, c, Rook) \cup Board_piece(b, c, Queen)
Board_all(b) == b.all_v

\* the first square of an iterated bitboard (lowest index); unwrap() of an
\* empty iteration panics, which never happens on a Board with both kings
BitboardFirst(bb) == CHOOSE s \in bb : \A t \in bb : s <= t
Board_king_pos(b, c) == BitboardFirst(Board_piece(b, c, King))

\* ------------------------------------------- movegen.rs: attack predicates
is_square_attacked(b, s, c) ==
    LET all == Board_all(b)
    IN \/ Board_piece(b, c, Pawn) \cap attack_pawn(inv(c), s) /= {}
       \/ Board_piece(b, c, King) \cap attack_king(s) /= {}
       \/ Board_piece(b, c, Knight) \cap attack_knight(s) /= {}
       \/ attack_bishop_and(s, all, Board_piece_diag(b, c)) /= {}
       \/ attack_rook_and(s, all, Board_piece_line(b, c)) /= {}

\* faulty variant: the knights' attacks left out
square_attackers_no_knight(b, s, c) ==
    LET all == Board_all(b)
    IN (Board_piece(b, c, Pawn) \cap attack_pawn(inv(c), s))
       \cup (Board_piece(b, c, King) \cap attack_king(s))
       \cup (attack_bishop_and(s, all, Board_piece_diag(b, c)))
       \cup (attack_rook_and(s, all, Board_piece_line(b, c)))

square_attackers(b, s, c) ==
    LET all == Board_all(b)
    IN (Board_piece(b, c, Pawn) \cap attack_pawn(inv(c), s))
       \cup (Board_piece(b, c, King) \cap attack_king(s))
       \cup (Board_piece(b, c, Knight) \cap attack_knight(s))
       \cup (attack_bishop_and(s, all, Board_piece_diag(b, c)))
       \cup (attack_rook_and(s, all, Board_piece_line(b, c)))

Board_is_opponent_king_attacked(b) ==
    is_square_attacked(b, Board_king_pos(b, inv(b.r.side)), b.r.side)

Board_is_check(b) ==
    is_square_attacked(b, Board_king_pos(b, b.r.side), inv(b.r.side))

Board_checkers(b) ==
    square_attackers(b, Board_king_pos(b, b.r.side), inv(b.r.side))

\* --------------------------------- board.rs: TryFrom<RawBoard> for Board
\* faulty variant: the en-passant source kept although the passed square is occupied
NormalizeEp_no_path(raw) ==
    IF raw.ep_src = NoSq THEN NoSq
    ELSE IF raw.squares[raw.ep_src] /= Cell_make(inv(raw.side), Pawn) THEN NoSq
         ELSE raw.ep_src

\* step 1: the en-passant source after the "Check enpassant" block
NormalizeEp(raw) ==
    IF raw.ep_src = NoSq THEN NoSq
    ELSE LET p == raw.ep_src
             pp == p + pawn_forward_delta(raw.side)
         IN IF raw.squares[p] /= Cell_make(inv(raw.side), Pawn) \/ raw.squares[pp] /= CellNone
            THEN NoSq ELSE p

\* step 2: the castling rights after the "Reset bad castling flags" loop
NormalizeCastling(raw) ==
    LET lost(color) ==
            LET rank == castling_rank(color)
            IN (IF raw.squares[Sq_make(FileE, rank)] /= Cell_make(color, King)
                THEN {CastlingRights_to_index(color, QueenSide),
                      CastlingRights_to_index(color, KingSide)} ELSE {})
               \cup (IF raw.squares[Sq_make(FileA, rank)] /= Cell_make(color, Rook)
                     THEN {CastlingRights_to_index(color, QueenSide)} ELSE {})
               \cup (IF raw.squares[Sq_make(FileH, rank)] /= Cell_make(color, Rook)
                     THEN {CastlingRights_to_index(color, KingSide)} ELSE {})
    IN raw.castling \ (lost(White) \cup lost(Black))

\* step 3: the bitboards computed from the mailbox
BuildBoard(raw) ==
    [r |-> raw,
     hash |-> RawBoard_zobrist_hash(raw),
     white |-> {s \in Sq : Cell_color(raw.squares[s]) = White},
     black |-> {s \in Sq : Cell_color(raw.squares[s]) = Black},
     cells |-> [cell \in Cells |->
                  IF cell = CellNone THEN Bitboard_EMPTY
                  ELSE {s \in Sq : raw.squares[s] = cell}],
     all_v |-> {s \in Sq : raw.squares[s] /= CellNone}]

\* faulty variant: only rank 8 is forbidden to pawns
BAD_PAWN_POSES_r8 == bitboard_rank(R8)
BAD_PAWN_POSES == bitboard_rank(R8) \cup bitboard_rank(R1)

\* The conversion's result: err = "Ok" and the Board, or the error variant
\* with its payload (a colour or a square) in arg.
Board_try_from(raw0) ==
    IF raw0.ep_src /= NoSq /\ Sq_rank(raw0.ep_src) /= ep_src_rank(raw0.side)
    THEN [err |-> "BadEnpassant", arg |-> raw0.ep_src]
    ELSE
    LET raw == [raw0 EXCEPT !.ep_src = NormalizeEp(raw0),
                            !.castling = NormalizeCastling(raw0)]
        res == BuildBoard(raw)
        white_king == res.cells[WhiteKing]
        black_king == res.cells[BlackKing]
        pawns == res.cells[WhitePawn] \cup res.cells[BlackPawn]
        bad_pawns == pawns \cap BAD_PAWN_POSES
    IN IF Cardinality(res.white) > 16 THEN [err |-> "TooManyPieces", arg |-> White]
       ELSE IF Cardinality(res.black) > 16 THEN [err |-> "TooManyPieces", arg |-> Black]
       ELSE IF white_king = {} THEN [err |-> "NoKing", arg |-> White]
       ELSE IF black_king = {} THEN [err |-> "NoKing", arg |-> Black]
       ELSE IF Cardinality(white_king) > 1 THEN [err |-> "TooManyKings", arg |-> White]
       ELSE IF Cardinality(black_king) > 1 THEN [err |-> "TooManyKings", arg |-> Black]
       ELSE IF bad_pawns /= {} THEN [err |-> "BadPawn", arg |-> BitboardFirst(bad_pawns)]
       ELSE IF Board_is_opponent_king_attacked(res) THEN [err |-> "OpponentKingAttacked"]
       ELSE [err |-> "Ok", board |-> res]

\* ------------------------------------------------- moves.rs: MoveKind, Move
KindNull == 0
KindSimple == 1
KindCastlingKingside == 2
KindCastlingQueenside == 3
KindPawnSimple == 4
KindPawnDouble == 5
KindEnpassant == 6
KindPromoteKnight == 7
KindPromoteBishop == 8
KindPromoteRook == 9
KindPromoteQueen == 10
MoveKindCount == 11
MoveKinds == 0 .. (MoveKindCount - 1)
PromoteKinds == {KindPromoteKnight, KindPromoteBishop, KindPromoteRook, KindPromoteQueen}

\* MoveKind::promote(), defined on the promotion kinds
MoveKind_promote(kind) ==
    CASE kind = KindPromoteKnight -> Knight
      [] kind = KindPromoteBishop -> Bishop
      [] kind = KindPromoteRook -> Rook
      [] kind = KindPromoteQueen -> Queen
      [] OTHER -> NoPiece

Move_new_unchecked(kind, src, dst) == [kind |-> kind, src |-> src, dst |-> dst]
Move_NULL == [kind |-> KindNull, src |-> 0, dst |-> 0]

Move_is_well_formed(mv) ==
    IF mv.kind = KindNull THEN mv = Move_NULL
    ELSE IF mv.src = mv.dst THEN FALSE
    ELSE LET sf == Sq_file(mv.src)
             df == Sq_file(mv.dst)
             sr == Sq_rank(mv.src)
             dr == Sq_rank(mv.dst)
         IN CASE mv.kind = KindSimple -> TRUE
              [] mv.kind = KindCastlingKingside ->
                    \E c \in Colors : /\ mv.src = Sq_make(FileE, castling_rank(c))
                                      /\ mv.dst = Sq_make(FileG, castling_rank(c))
              [] mv.kind = KindCastlingQueenside ->
                    \E c \in Colors : /\ mv.src = Sq_make(FileE, castling_rank(c))
                                      /\ mv.dst = Sq_make(FileC, castling_rank(c))
              [] mv.kind = KindPawnSimple ->
                    /\ abs_diff(sf, df) <= 1
                    /\ sr \notin {R1, R8}
                    /\ dr \notin {R1, R8}
                    /\ abs_diff(sr, dr) = 1
              [] mv.kind = KindPawnDouble ->
                    /\ sf = df
                    /\ \E c \in Colors : /\ sr = double_move_src_rank(c)
                                         /\ dr = double_move_dst_rank(c)
              [] mv.kind = KindEnpassant ->
                    /\ abs_diff(sf, df) = 1
                    /\ \E c \in Colors : sr = ep_src_rank(c) /\ dr = ep_dst_rank(c)
              [] mv.kind \in PromoteKinds ->
                    /\ abs_diff(sf, df) <= 1
                    /\ \E c \in Colors : sr = promote_src_rank(c) /\ dr = promote_dst_rank(c)

\* faulty variant: an undo record that does not keep the en-passant source
RawUndo_of_no_ep(b, mv) ==
    [hash |-> b.hash, dst_cell |-> Board_get(b, mv.dst), castling |-> b.r.castling,
     ep_src |-> NoSq, move_counter |-> b.r.move_counter]

\* RawUndo as do_make_move fills it
RawUndo_of(b, mv) ==
    [hash |-> b.hash, dst_cell |-> Board_get(b, mv.dst), castling |-> b.r.castling,
     ep_src |-> b.r.ep_src, move_counter |-> b.r.move_counter]

\* --------------------------------------- field updates used by make/unmake
put(b, s, cell) == [b EXCEPT !.r.squares[s] = cell]
put2(b, file, rank, cell) == put(b, Sq_make(file, rank), cell)
\* faulty variant: the hash is left as it is
hash_xor_none(b, keys) == b
hash_xor(b, keys) == [b EXCEPT !.hash = HashXor(@, keys)]
\* *b.color_mut(c) ^= bb
color_xor(b, c, bb) ==
    IF c = White THEN [b EXCEPT !.white = BitXor(@, bb)] ELSE [b EXCEPT !.black = BitXor(@, bb)]
\* *b.color_mut(c) &= !bb
color_clear(b, c, bb) ==
    IF c = White THEN [b EXCEPT !.white = @ \ bb] ELSE [b EXCEPT !.black = @ \ bb]
\* *b.color_mut(c) |= bb
color_or(b, c, bb) ==
    IF c = White THEN [b EXCEPT !.white = @ \cup bb] ELSE [b EXCEPT !.black = @ \cup bb]
cell_xor(b, cell, bb) == [b EXCEPT !.cells[cell] = BitXor(@, bb)]
\* faulty variant: a capture that leaves the taken piece in its cell bitboard
cell_clear_keep(b, cell, bb) == b
cell_clear(b, cell, bb) == [b EXCEPT !.cells[cell] = @ \ bb]
cell_or(b, cell, bb) == [b EXCEPT !.cells[cell] = @ \cup bb]

\* 16-bit counters: += 1 and -= 1 on u16 (wrapping build)
U16 == 65536
u16_inc(x) == (x + 1) % U16
u16_dec(x) == (x + U16 - 1) % U16

\* faulty variant: castling rights that survive a king or rook leaving home
update_castling_keep(b, change) == b

\* faulty variant: only a move touching the king's home square revokes
update_castling_king_only(b, change) ==
    LET castling == {i \in b.r.castling :
                       ~ \E c \in Colors, s \in CastlingSides :
                           /\ i = CastlingRights_to_index(c, s)
                           /\ Sq_make(FileE, castling_rank(c)) \in change}
    IN IF castling /= b.r.castling
       THEN hash_xor([hash_xor(b, zobrist_castling(b.r.castling))
                         EXCEPT !.r.castling = castling],
                     zobrist_castling(castling))
       ELSE b

update_castling(b, change) ==
    IF change \cap castling_ALL_SRCS = {} THEN b
    ELSE LET castling == {i \in b.r.castling :
                            ~ \E c \in Colors, s \in CastlingSides :
                                /\ i = CastlingRights_to_index(c, s)
                                /\ change \cap castling_srcs(c, s) /= {}}
         IN IF castling /= b.r.castling
            THEN hash_xor([hash_xor(b, zobrist_castling(b.r.castling))
                              EXCEPT !.r.castling = castling],
                          zobrist_castling(castling))
            ELSE b

\* faulty variant: the en-passant source is set only when an enemy pawn
\* stands beside the destination
do_make_pawn_double_capturable(b, mv, change, c, inv_) ==
    LET pawn == Cell_make(c, Pawn)
        b1 == IF inv_
              THEN put(put(b, mv.src, pawn), mv.dst, CellNone)
              ELSE hash_xor(put(put(b, mv.src, CellNone), mv.dst, pawn),
                            HashXor(zobrist_squares(pawn, mv.src), zobrist_squares(pawn, mv.dst)))
        b2 == cell_xor(color_xor(b1, c, change), pawn, change)
        beside == {s \in Sq : Sq_rank(s) = Sq_rank(mv.dst)
                               /\ abs_diff(Sq_file(s), Sq_file(mv.dst)) = 1
                               /\ Board_get(b, s) = Cell_make(inv(c), Pawn)}
    IN IF ~inv_ /\ beside /= {}
       THEN hash_xor([b2 EXCEPT !.r.ep_src = mv.dst], zobrist_enpassant(mv.dst))
       ELSE b2

do_make_pawn_double(b, mv, change, c, inv_) ==
    LET pawn == Cell_make(c, Pawn)
        b1 == IF inv_
              THEN put(put(b, mv.src, pawn), mv.dst, CellNone)
              ELSE hash_xor(put(put(b, mv.src, CellNone), mv.dst, pawn),
                            HashXor(zobrist_squares(pawn, mv.src), zobrist_squares(pawn, mv.dst)))
        b2 == cell_xor(color_xor(b1, c, change), pawn, change)
    IN IF ~inv_
       THEN hash_xor([b2 EXCEPT !.r.ep_src = mv.dst], zobrist_enpassant(mv.dst))
       ELSE b2

\* faulty variant: the pawn is taken from the square ahead of the destination
do_make_enpassant_ahead(b, mv, change, c, inv_) ==
    LET taken_pos == mv.dst + pawn_forward_delta(c)
        taken == Bitboard_one(taken_pos)
        our_pawn == Cell_make(c, Pawn)
        their_pawn == Cell_make(inv(c), Pawn)
        b1 == IF inv_
              THEN put(put(put(b, mv.src, our_pawn), mv.dst, CellNone), taken_pos, their_pawn)
              ELSE hash_xor(put(put(put(b, mv.src, CellNone), mv.dst, our_pawn),
                                taken_pos, CellNone),
                            HashXor(HashXor(zobrist_squares(our_pawn, mv.src),
                                            zobrist_squares(our_pawn, mv.dst)),
                                    zobrist_squares(their_pawn, taken_pos)))
    IN cell_xor(color_xor(cell_xor(color_xor(b1, c, change), our_pawn, change),
                          inv(c), taken),
                their_pawn, taken)

do_make_enpassant(b, mv, change, c, inv_) ==
    LET taken_pos == mv.dst - pawn_forward_delta(c)
        taken == Bitboard_one(taken_pos)
        our_pawn == Cell_make(c, Pawn)
        their_pawn == Cell_make(inv(c), Pawn)
        b1 == IF inv_
              THEN put(put(put(b, mv.src, our_pawn), mv.dst, CellNone), taken_pos, their_pawn)
              ELSE hash_xor(put(put(put(b, mv.src, CellNone), mv.dst, our_pawn),
                                taken_pos, CellNone),
                            HashXor(HashXor(zobrist_squares(our_pawn, mv.src),
                                            zobrist_squares(our_pawn, mv.dst)),
                                    zobrist_squares(their_pawn, taken_pos)))
    IN cell_xor(color_xor(cell_xor(color_xor(b1, c, change), our_pawn, change),
                          inv(c), taken),
                their_pawn, taken)

\* faulty variant: the rights cleared without toggling the castling key
unset_color_unhashed(b, c) ==
    [b EXCEPT !.r.castling = CastlingRights_unset_color(b.r.castling, c)]

\* clearing both rights of c with the hash toggled around the change
unset_color_hashed(b, c) ==
    hash_xor([hash_xor(b, zobrist_castling(b.r.castling))
                 EXCEPT !.r.castling = CastlingRights_unset_color(b.r.castling, c)],
             zobrist_castling(CastlingRights_unset_color(b.r.castling, c)))

do_make_castling_kingside(b, c, inv_) ==
    LET king == Cell_make(c, King)
        rook == Cell_make(c, Rook)
        rank == castling_rank(c)
        b1 == IF inv_
              THEN put2(put2(put2(put2(b, FileE, rank, king), FileF, rank, CellNone),
                             FileG, rank, CellNone), FileH, rank, rook)
              ELSE hash_xor(put2(put2(put2(put2(b, FileE, rank, CellNone), FileF, rank, rook),
                                      FileG, rank, king), FileH, rank, CellNone),
                            zobrist_castling_delta(c, KingSide))
        off == castling_offset(c)
        \* 0xf0, 0xa0, 0x50 << off
        b2 == cell_xor(cell_xor(color_xor(b1, c, ByteShl({4, 5, 6, 7}, off)),
                                rook, ByteShl({5, 7}, off)),
                       king, ByteShl({4, 6}, off))
    IN IF ~inv_ THEN unset_color_hashed(b2, c) ELSE b2

do_make_castling_queenside(b, c, inv_) ==
    LET king == Cell_make(c, King)
        rook == Cell_make(c, Rook)
        rank == castling_rank(c)
        b1 == IF inv_
              THEN put2(put2(put2(put2(b, FileA, rank, rook), FileC, rank, CellNone),
                             FileD, rank, CellNone), FileE, rank, king)
              ELSE hash_xor(put2(put2(put2(put2(b, FileA, rank, CellNone), FileC, rank, king),
                                      FileD, rank, rook), FileE, rank, CellNone),
                            zobrist_castling_delta(c, QueenSide))
        off == castling_offset(c)
        \* 0x1d, 0x09, 0x14 << off
        b2 == cell_xor(cell_xor(color_xor(b1, c, ByteShl({0, 2, 3, 4}, off)),
                                rook, ByteShl({0, 3}, off)),
                       king, ByteShl({2, 4}, off))
    IN IF ~inv_ THEN unset_color_hashed(b2, c) ELSE b2

\* ------------------------------------------------- moves.rs: do_make_move
do_make_move(b, mv, c) ==
    LET src_cell == Board_get(b, mv.src)
        dst_cell == Board_get(b, mv.dst)
        src == Bitboard_one(mv.src)
        dst == Bitboard_one(mv.dst)
        change == src \cup dst
        pawn == Cell_make(c, Pawn)
        b0 == IF b.r.ep_src /= NoSq
              THEN [hash_xor(b, zobrist_enpassant(b.r.ep_src)) EXCEPT !.r.ep_src = NoSq]
              ELSE b
        b1 == CASE mv.kind \in {KindSimple, KindPawnSimple} ->
                     LET x1 == put(put(b0, mv.src, CellNone), mv.dst, src_cell)
                         x2 == hash_xor(x1, HashXor(HashXor(zobrist_squares(src_cell, mv.src),
                                                            zobrist_squares(src_cell, mv.dst)),
                                                    zobrist_squares(dst_cell, mv.dst)))
                         x3 == cell_xor(color_xor(x2, c, change), src_cell, change)
                         x4 == cell_clear(color_clear(x3, inv(c), dst), dst_cell, dst)
                     IN IF src_cell /= pawn THEN update_castling(x4, change) ELSE x4
                [] mv.kind = KindPawnDouble -> do_make_pawn_double(b0, mv, change, c, FALSE)
                [] mv.kind \in PromoteKinds ->
                     LET promote == Cell_make(c, MoveKind_promote(mv.kind))
                         x1 == put(put(b0, mv.src, CellNone), mv.dst, promote)
                         x2 == hash_xor(x1, HashXor(HashXor(zobrist_squares(src_cell, mv.src),
                                                            zobrist_squares(promote, mv.dst)),
                                                    zobrist_squares(dst_cell, mv.dst)))
                         x3 == cell_xor(cell_xor(color_xor(x2, c, change), pawn, src),
                                        promote, dst)
                         x4 == cell_clear(color_clear(x3, inv(c), dst), dst_cell, dst)
                     IN update_castling(x4, change)
                [] mv.kind = KindCastlingKingside -> do_make_castling_kingside(b0, c, FALSE)
                [] mv.kind = KindCastlingQueenside -> do_make_castling_queenside(b0, c, FALSE)
                [] mv.kind = KindNull -> b0
                [] mv.kind = KindEnpassant -> do_make_enpassant(b0, mv, change, c, FALSE)
        b2 == IF dst_cell /= CellNone \/ src_cell = pawn
              THEN [b1 EXCEPT !.r.move_counter = 0]
              ELSE [b1 EXCEPT !.r.move_counter = u16_inc(@)]
        b3 == hash_xor([b2 EXCEPT !.r.side = inv(c)], zobrist_MOVE_SIDE)
        b4 == IF c = Black THEN [b3 EXCEPT !.r.move_number = u16_inc(@)] ELSE b3
    IN [b4 EXCEPT !.all_v = b4.white \cup b4.black]

make_move_unchecked(b, mv) == do_make_move(b, mv, b.r.side)

\* ----------------------------------------------- moves.rs: do_unmake_move
do_unmake_move(b, mv, u, c) ==
    LET src == Bitboard_one(mv.src)
        dst == Bitboard_one(mv.dst)
        change == src \cup dst
        src_cell == Board_get(b, mv.dst)
        dst_cell == u.dst_cell
        b1 == CASE mv.kind \in {KindSimple, KindPawnSimple} ->
                     LET x1 == put(put(b, mv.src, src_cell), mv.dst, dst_cell)
                         x2 == cell_xor(color_xor(x1, c, change), src_cell, change)
                     IN IF dst_cell /= CellNone
                        THEN cell_or(color_or(x2, inv(c), dst), dst_cell, dst)
                        ELSE x2
                [] mv.kind = KindPawnDouble -> do_make_pawn_double(b, mv, change, c, TRUE)
                [] mv.kind \in PromoteKinds ->
                     LET pawn == Cell_make(c, Pawn)
                         x1 == put(put(b, mv.src, pawn), mv.dst, dst_cell)
                         x2 == cell_xor(cell_xor(color_xor(x1, c, change), pawn, src),
                                        src_cell, dst)
                     IN IF dst_cell /= CellNone
                        THEN cell_or(color_or(x2, inv(c), dst), dst_cell, dst)
                        ELSE x2
                [] mv.kind = KindCastlingKingside -> do_make_castling_kingside(b, c, TRUE)
                [] mv.kind = KindCastlingQueenside -> do_make_castling_queenside(b, c, TRUE)
                [] mv.kind = KindNull -> b
                [] mv.kind = KindEnpassant -> do_make_enpassant(b, mv, change, c, TRUE)
        b2 == [b1 EXCEPT !.hash = u.hash,
                         !.r.castling = u.castling,
                         !.r.ep_src = u.ep_src,
                         !.r.move_counter = u.move_counter,
                         !.r.side = c]
        b3 == IF c = Black THEN [b2 EXCEPT !.r.move_number = u16_dec(@)] ELSE b2
    IN [b3 EXCEPT !.all_v = b3.white \cup b3.black]

unmake_move_unchecked(b, mv, u) == do_unmake_move(b, mv, u, inv(b.r.side))

\* -------------------------------------------- moves.rs: semilegality
is_bishop_semilegal(src, dst, all) ==
    is_bishop_valid(src, dst) /\ bishop_strict(src, dst) \cap all = {}

is_rook_semilegal(src, dst, all) ==
    is_rook_valid(src, dst) /\ rook_strict(src, dst) \cap all = {}

is_queen_semilegal(src, dst, all) ==
    is_bishop_semilegal(src, dst, all) \/ is_rook_semilegal(src, dst, all)

do_is_move_semilegal(b, mv, c) ==
    IF mv.kind = KindNull THEN FALSE
    ELSE
    LET src_cell == Board_get(b, mv.src)
    IN IF src_cell = Cell_make(c, Pawn)
       THEN IF (IF c = White THEN mv.src <= mv.dst ELSE mv.src >= mv.dst)
            THEN FALSE
            ELSE CASE mv.kind = KindPawnDouble ->
                        \* 0x0101 << (src - 16)  /  0x010100 << src
                        LET must_empty == IF c = White
                                          THEN {x \in {mv.src - 16, mv.src - 8} : x \in Sq}
                                          ELSE {x \in {mv.src + 8, mv.src + 16} : x \in Sq}
                        IN Board_all(b) \cap must_empty = {}
                   [] mv.kind = KindEnpassant ->
                        IF b.r.ep_src /= NoSq
                        THEN LET p == b.r.ep_src
                             IN /\ (p = mv.src + 1 \/ p = mv.src - 1)
                                /\ mv.dst = p + pawn_forward_delta(c)
                        ELSE FALSE
                   [] mv.kind \in ({KindPawnSimple} \cup PromoteKinds) ->
                        LET dst_cell == Board_get(b, mv.dst)
                        IN IF Cell_color(dst_cell) /= NoColor
                           THEN c /= Cell_color(dst_cell) /\ Sq_file(mv.dst) /= Sq_file(mv.src)
                           ELSE Sq_file(mv.dst) = Sq_file(mv.src)
                   [] OTHER -> FALSE
       ELSE CASE mv.kind = KindSimple ->
                   LET dst_cell == Board_get(b, mv.dst)
                   IN IF Cell_color(src_cell) /= c \/ Cell_color(dst_cell) = c
                      THEN FALSE
                      ELSE (CASE Cell_piece(src_cell) = Bishop ->
                                    is_bishop_semilegal(mv.src, mv.dst, Board_all(b))
                             [] Cell_piece(src_cell) = Rook ->
                                   is_rook_semilegal(mv.src, mv.dst, Board_all(b))
                             [] Cell_piece(src_cell) = Queen ->
                                   is_queen_semilegal(mv.src, mv.dst, Board_all(b))
                             [] Cell_piece(src_cell) = Knight ->
                                   attack_knight(mv.src) \cap Bitboard_one(mv.dst) /= {}
                             [] Cell_piece(src_cell) = King ->
                                   attack_king(mv.src) \cap Bitboard_one(mv.dst) /= {})
              [] mv.kind = KindCastlingKingside ->
                   /\ Sq_rank(mv.src) = castling_rank(c)
                   /\ CastlingRights_has(b.r.castling, c, KingSide)
                   /\ Board_all(b) \cap castling_pass(c, KingSide) = {}
                   /\ ~is_square_attacked(b, mv.src, inv(c))
                   /\ ~is_square_attacked(b, mv.src + 1, inv(c))
              [] mv.kind = KindCastlingQueenside ->
                   /\ Sq_rank(mv.src) = castling_rank(c)
                   /\ CastlingRights_has(b.r.castling, c, QueenSide)
                   /\ Board_all(b) \cap castling_pass(c, QueenSide) = {}
                   /\ ~is_square_attacked(b, mv.src, inv(c))
                   /\ ~is_square_attacked(b, mv.src - 1, inv(c))
              [] OTHER -> FALSE

Move_is_semilegal(mv, b) == do_is_move_semilegal(b, mv, b.r.side)

\* ------------------------------------------------ moves.rs: legality
is_square_attacked_masked(b, s, c, all, ours_mask) ==
    LET near == (Board_piece(b, c, Pawn) \cap attack_pawn(inv(c), s))
                \cup (Board_piece(b, c, King) \cap attack_king(s))
                \cup (Board_piece(b, c, Knight) \cap attack_knight(s))
    IN \/ near \cap ours_mask /= {}
       \/ attack_bishop_and(s, all, Board_piece_diag(b, c)) \cap ours_mask /= {}
       \/ attack_rook_and(s, all, Board_piece_line(b, c)) \cap ours_mask /= {}

\* faulty variant: en passant treated like any other capture, the taken
\* pawn staying in the simulated occupancy
do_is_move_legal_plain_ep(b, mv, c) ==
    LET inv_ == inv(c)
        src == Bitboard_one(mv.src)
        dst == Bitboard_one(mv.dst)
        src_cell == Board_get(b, mv.src)
    IN IF src_cell = Cell_make(c, King)
       THEN ~is_square_attacked_masked(b, mv.dst, inv_, BitXor(Board_all(b), src),
                                       Bitboard_FULL)
       ELSE ~is_square_attacked_masked(b, Board_king_pos(b, c), inv_,
                                       BitXor(Board_all(b), src) \cup dst, BitNot(dst))

do_is_move_legal(b, mv, c) ==
    LET inv_ == inv(c)
        src == Bitboard_one(mv.src)
        dst == Bitboard_one(mv.dst)
        src_cell == Board_get(b, mv.src)
    IN IF src_cell = Cell_make(c, King)
       THEN ~is_square_attacked_masked(b, mv.dst, inv_, BitXor(Board_all(b), src),
                                       Bitboard_FULL)
       ELSE LET king == Board_king_pos(b, c)
                all == BitXor(Board_all(b), src) \cup dst
                ours_mask == BitNot(dst)
            IN IF mv.kind = KindEnpassant
               THEN LET tmp == advance_forward(inv_, dst)
                    IN ~is_square_attacked_masked(b, king, inv_, BitXor(all, tmp),
                                                  BitXor(ours_mask, tmp))
               ELSE ~is_square_attacked_masked(b, king, inv_, all, ours_mask)

Move_is_legal_unchecked(mv, b) == do_is_move_legal(b, mv, b.r.side)

\* faulty variant: validation that skips the legality test
Move_validate_semilegal_only(mv, b) ==
    IF ~Move_is_semilegal(mv, b) THEN "NotSemiLegal" ELSE "Ok"

\* Move::validate: "Ok", "NotSemiLegal" or "NotLegal"
Move_validate(mv, b) ==
    IF ~Move_is_semilegal(mv, b) THEN "NotSemiLegal"
    ELSE IF Move_is_legal_unchecked(mv, b) THEN "Ok" ELSE "NotLegal"

\* faulty variant: every triple is accepted
Move_new_any(kind, src, dst) == "Ok"

\* Move::new: "Ok" or "NotWellFormed"
Move_new(kind, src, dst) ==
    IF ~Move_is_well_formed(Move_new_unchecked(kind, src, dst)) THEN "NotWellFormed" ELSE "Ok"

\* ----------------------------------------------- board.rs: Board::make_move
\* Move::validate, then make_move_unchecked with the undo dropped; the result
\* is the returned variant and the Board afterwards.
Board_make_move(b, mv) ==
    LET v == Move_validate(mv, b)
    IN IF v /= "Ok" THEN [res |-> v, board |-> b]
       ELSE [res |-> "Ok", board |-> make_move_unchecked(b, mv)]

\* ------------------------------------------- moves.rs: UciMove::into_move
\* promote is NoPiece for a four-character move
UciMove_into_move(src, dst, promote, b) ==
    LET c == b.r.side
        src_cell == Board_get(b, src)
    IN IF Cell_color(src_cell) /= c THEN [err |-> "NotWellFormed"]
       ELSE LET kind ==
                  IF promote /= NoPiece
                  THEN CASE promote = Knight -> KindPromoteKnight
                         [] promote = Bishop -> KindPromoteBishop
                         [] promote = Rook -> KindPromoteRook
                         [] promote = Queen -> KindPromoteQueen
                  ELSE IF Cell_piece(src_cell) = Pawn
                       THEN IF /\ Sq_rank(src) = double_move_src_rank(c)
                               /\ Sq_rank(dst) = double_move_dst_rank(c)
                            THEN KindPawnDouble
                            ELSE IF Sq_file(src) /= Sq_file(dst) /\ Board_get(b, dst) = CellNone
                                 THEN KindEnpassant
                                 ELSE KindPawnSimple
                       ELSE IF Cell_piece(src_cell) = King
                            THEN LET r == castling_rank(c)
                                 IN IF src = Sq_make(FileE, r) /\ dst = Sq_make(FileG, r)
                                    THEN KindCastlingKingside
                                    ELSE IF src = Sq_make(FileE, r) /\ dst = Sq_make(FileC, r)
                                         THEN KindCastlingQueenside
                                         ELSE KindSimple
                            ELSE KindSimple
            IN IF Move_new(kind, src, dst) = "Ok"
               THEN [err |-> "Ok", mv |-> Move_new_unchecked(kind, src, dst)]
               ELSE [err |-> "NotWellFormed"]

\* ------------------------------------------------------ initial positions
ee == CellNone
WP == WhitePawn
WK == WhiteKing
WN == WhiteKnight
WB == WhiteBishop
WR == WhiteRook
WQ == WhiteQueen
BP == BlackPawn
BK == BlackKing
BN == BlackKnight
BB == BlackBishop
BR == BlackRook
BQ == BlackQueen

\* a RawBoard from its eight ranks (rank 8 first, as in FEN)
RawOf(rows, side, castling, ep_src, move_counter, move_number) ==
    [squares |-> [s \in Sq |-> rows[Sq_rank(s) + 1][Sq_file(s) + 1]],
     side |-> side, castling |-> castling, ep_src |-> ep_src,
     move_counter |-> move_counter, move_number |-> move_number]

EmptyRank == <<ee, ee, ee, ee, ee, ee, ee, ee>>

\* r3k3/p7/8/8/8/6n1/7P/4K2R w Kq - 3 10: the knight attacks e2, f1 and h1
RawCastlingA ==
    RawOf(<< <<BR, ee, ee, ee, BK, ee, ee, ee>>, <<BP, ee, ee, ee, ee, ee, ee, ee>>,
             EmptyRank, EmptyRank, EmptyRank, <<ee, ee, ee, ee, ee, ee, BN, ee>>,
             <<ee, ee, ee, ee, ee, ee, ee, WP>>, <<ee, ee, ee, ee, WK, ee, ee, WR>> >>,
          White, {CastlingRights_to_index(White, KingSide),
                  CastlingRights_to_index(Black, QueenSide)}, NoSq, 3, 10)

\* 4k2r/7p/8/8/8/8/P7/R3K3 b Qk - 0 1
RawCastlingB ==
    RawOf(<< <<ee, ee, ee, ee, BK, ee, ee, BR>>, <<ee, ee, ee, ee, ee, ee, ee, BP>>,
             EmptyRank, EmptyRank, EmptyRank, EmptyRank,
             <<WP, ee, ee, ee, ee, ee, ee, ee>>, <<WR, ee, ee, ee, WK, ee, ee, ee>> >>,
          Black, {CastlingRights_to_index(White, QueenSide),
                  CastlingRights_to_index(Black, KingSide)}, NoSq, 0, 1)

\* 8/4p3/8/K2P3r/8/8/8/7k b - - 5 7: after e7e5 the capture d5xe6 is semilegal
\* and would open the fifth rank between the rook and the king
RawPinnedEnpassant ==
    RawOf(<< EmptyRank, <<ee, ee, ee, ee, BP, ee, ee, ee>>, EmptyRank,
             <<WK, ee, ee, WP, ee, ee, ee, BR>>, EmptyRank, EmptyRank, EmptyRank,
             <<ee, ee, ee, ee, ee, ee, ee, BK>> >>,
          Black, {}, NoSq, 5, 7)

\* 3K4/3p4/8/3PpP2/8/5p2/6P1/2k5 w - e6 0 1
RawPawns ==
    RawOf(<< <<ee, ee, ee, WK, ee, ee, ee, ee>>, <<ee, ee, ee, BP, ee, ee, ee, ee>>, EmptyRank,
             <<ee, ee, ee, WP, BP, WP, ee, ee>>, EmptyRank,
             <<ee, ee, ee, ee, ee, BP, ee, ee>>, <<ee, ee, ee, ee, ee, ee, WP, ee>>,
             <<ee, ee, BK, ee, ee, ee, ee, ee>> >>,
          White, {}, Sq_make(FileE, R5), 0, 1)

\* n1n4K/1P6/8/8/8/8/8/7k w - - 7 1
RawPromote ==
    RawOf(<< <<BN, ee, BN, ee, ee, ee, ee, WK>>, <<ee, WP, ee, ee, ee, ee, ee, ee>>, EmptyRank,
             EmptyRank, EmptyRank, EmptyRank, EmptyRank,
             <<ee, ee, ee, ee, ee, ee, ee, BK>> >>,
          White, {}, NoSq, 7, 1)

\* 2K5/6p1/5P2/8/3pPp2/8/3P4/3k4 b - e3 0 1 (RawPawns with the colours swapped)
RawPawnsBlack ==
    RawOf(<< <<ee, ee, WK, ee, ee, ee, ee, ee>>, <<ee, ee, ee, ee, ee, ee, BP, ee>>,
             <<ee, ee, ee, ee, ee, WP, ee, ee>>, EmptyRank,
             <<ee, ee, ee, BP, WP, BP, ee, ee>>, EmptyRank,
             <<ee, ee, ee, WP, ee, ee, ee, ee>>, <<ee, ee, ee, BK, ee, ee, ee, ee>> >>,
          Black, {}, Sq_make(FileE, R4), 0, 1)

\* 7K/8/8/8/8/8/1p6/N1N4k b - - 7 1 (RawPromote with the colours swapped)
RawPromoteBlack ==
    RawOf(<< <<ee, ee, ee, ee, ee, ee, ee, WK>>, EmptyRank, EmptyRank, EmptyRank, EmptyRank,
             EmptyRank, <<ee, BP, ee, ee, ee, ee, ee, ee>>,
             <<WN, ee, WN, ee, ee, ee, ee, BK>> >>,
          Black, {}, NoSq, 7, 1)

\* r3k2r/p6p/8/8/8/8/6B1/4K3 w kq - 0 1: the bishop can take the rook on a8
RawRookCapture ==
    RawOf(<< <<BR, ee, ee, ee, BK, ee, ee, BR>>, <<BP, ee, ee, ee, ee, ee, ee, BP>>,
             EmptyRank, EmptyRank, EmptyRank, EmptyRank,
             <<ee, ee, ee, ee, ee, ee, WB, ee>>, <<ee, ee, ee, ee, WK, ee, ee, ee>> >>,
          White, {CastlingRights_to_index(Black, KingSide),
                  CastlingRights_to_index(Black, QueenSide)}, NoSq, 0, 1)

\* r1bq1b1r/ppppkppp/2n2n2/4p3/2B1P3/5N2/PPPP1PPP/RNBQK1R1 w KQkq c6 6 5
\* (board.rs test_fixes_on_validate; parse_ep_src turns "c6" into the source c5)
RawFixExample ==
    RawOf(<< <<BR, ee, BB, BQ, ee, BB, ee, BR>>, <<BP, BP, BP, BP, BK, BP, BP, BP>>,
             <<ee, ee, BN, ee, ee, BN, ee, ee>>, <<ee, ee, ee, ee, BP, ee, ee, ee>>,
             <<ee, ee, WB, ee, WP, ee, ee, ee>>, <<ee, ee, ee, ee, ee, WN, ee, ee>>,
             <<WP, WP, WP, WP, ee, WP, WP, WP>>, <<WR, WN, WB, WQ, WK, ee, WR, ee>> >>,
          White, CastlingRights_FULL, Sq_make(FileC, R5), 6, 5)

\* r3k3/1P6/8/8/8/8/8/4K3 w q - 0 1: the pawn can take the rook on a8 and promote
RawPromoteCapture ==
    RawOf(<< <<BR, ee, ee, ee, BK, ee, ee, ee>>, <<ee, WP, ee, ee, ee, ee, ee, ee>>,
             EmptyRank, EmptyRank, EmptyRank, EmptyRank, EmptyRank,
             <<ee, ee, ee, ee, WK, ee, ee, ee>> >>,
          White, {CastlingRights_to_index(Black, QueenSide)}, NoSq, 0, 1)

InitRaws == {RawCastlingA, RawCastlingB, RawPinnedEnpassant, RawPawns, RawPawnsBlack,
             RawPromote, RawPromoteBlack, RawRookCapture, RawPromoteCapture}

\* Boards exist only as results of the validating conversion
InitBoards == {Board_try_from(x).board : x \in {y \in InitRaws : Board_try_from(y).err = "Ok"}}

\* ----------------------------------------------------------- move inputs
WellFormedMoves ==
    {m : m \in {mv \in [kind : MoveKinds, src : Sq, dst : Sq] : Move_is_well_formed(mv)}}

WellFormedFrom == Table([s \in Sq |-> {m : m \in {mv \in WellFormedMoves : mv.src = s}}])

CastlingMoves ==
    {m : m \in {mv \in WellFormedMoves :
                   mv.kind \in {KindCastlingKingside, KindCastlingQueenside}}}

\* The well-formed moves that do_is_move_semilegal does not reject on its
\* first test of the source cell: every kind but the castling kinds returns
\* false unless the source square holds a piece of the side to move.
CandidateMoves(board) ==
    CastlingMoves \cup
    UNION {WellFormedFrom[s] : s \in {y \in Sq : Cell_color(Board_get(board, y)) = board.r.side}}

SemiLegalMoves(board) == {mv \in CandidateMoves(board) : Move_is_semilegal(mv, board)}

LegalMoves(board) == {mv \in SemiLegalMoves(board) : Move_is_legal_unchecked(mv, board)}

\* ------------------------------------------------------------------ bounds
\* depth of the make/unmake stack
MaxPly == 2
\* moves played through Board::make_move / make_uci_move
MaxGame == 1
\* edits of a RawBoard before it is validated
MaxEdits == 1

\* ------------------------------------------------------------ the machine
VARIABLES
    pos,     \* the Board being played and searched on
    stack,   \* the moves made with make_move_unchecked that are not yet unmade:
             \* the move, its RawUndo and (for comparison) the Board before it
    game,    \* number of moves made with Board::make_move / make_uci_move
    last,    \* the last operation, the kind of its move and its result
    draft,   \* a RawBoard under construction
    edits,   \* number of edits made to draft
    vres,    \* the result of converting draft into a Board, once it was tried
    walk,    \* the perft case being counted: the root moves not yet walked
             \* and the leaves counted so far
    text,    \* a FEN text: the bytes given to from_str or written by Display
    comm,    \* uci::comm: its locals, the main loop and the search thread
    stops,   \* a StopState and the threads calling stop and register_on_stop
    feature_slice  \* the feature slice of the EvalBoard whose board is pos

vars == <<pos, stack, game, last, draft, edits, vres, walk, text, comm, stops, feature_slice>>

NotValidated == [err |-> "None"]

NoWalk == [name |-> "none"]
NoText == <<>>
NoComm == [main |-> "none"]
NoStops == [is_stopped |-> "none"]
NoSlice == "none"

Init ==
    /\ pos \in InitBoards
    /\ stack = <<>>
    /\ game = 0
    /\ feature_slice = NoSlice
    /\ comm = NoComm
    /\ stops = NoStops
    /\ last = [op |-> "init", kind |-> KindNull, res |-> "Ok"]
    /\ draft = RawBoard_empty
    /\ edits = 0
    /\ vres = NotValidated
    /\ walk = NoWalk
    /\ text = NoText

\* make_move_unchecked on a legal move, keeping the undo
MakeMove(mv) ==
    /\ Len(stack) < MaxPly
    /\ Move_validate(mv, pos) = "Ok"
    /\ pos' = make_move_unchecked(pos, mv)
    /\ stack' = Append(stack, [mv |-> mv, u |-> RawUndo_of(pos, mv), before |-> pos])
    /\ last' = [op |-> "make", kind |-> mv.kind, res |-> "Ok"]
    /\ UNCHANGED <<game, draft, edits, vres, walk, text, comm, stops, feature_slice>>

\* make_move_unchecked(Move::NULL), done when the side to move is not in check
MakeNull ==
    /\ Len(stack) < MaxPly
    /\ ~Board_is_check(pos)
    /\ pos' = make_move_unchecked(pos, Move_NULL)
    /\ stack' = Append(stack, [mv |-> Move_NULL, u |-> RawUndo_of(pos, Move_NULL),
                               before |-> pos])
    /\ last' = [op |-> "make", kind |-> KindNull, res |-> "Ok"]
    /\ UNCHANGED <<game, draft, edits, vres, walk, text, comm, stops, feature_slice>>

\* unmake_move_unchecked of the most recent move with its own undo
UnmakeMove ==
    /\ stack /= <<>>
    /\ LET top == stack[Len(stack)]
       IN /\ pos' = unmake_move_unchecked(pos, top.mv, top.u)
          /\ last' = [op |-> "unmake", kind |-> top.mv.kind, res |-> "Ok"]
    /\ stack' = SubSeq(stack, 1, Len(stack) - 1)
    /\ UNCHANGED <<game, draft, edits, vres, walk, text, comm, stops, feature_slice>>

Next ==
    \/ \E mv \in CandidateMoves(pos) : MakeMove(mv)
    \/ MakeNull
    \/ UnmakeMove

Spec == Init /\ [][Next]_vars


\* ---------------------------------------------- properties of make / unmake
\* the moves below the top of the stack were made on the Boards recorded there
Unmade == Len(stack') < Len(stack)
Made == Len(stack') > Len(stack)

\* C1: unmake_move_unchecked with the RawUndo of the most recent move gives
\* back, field for field, the Board that move was made on (mailbox, side,
\* castling rights, en-passant source, both clocks, hash, colour bitboards, cell
\* bitboards, occupancy); as the stack is unwound in LIFO order this holds at
\* every level, so unmaking m_n .. m_1 restores the Board before m_1.
C1_UnmakeRestores ==
    [][Unmade => pos' = stack[Len(stack)].before]_vars

\* a castling move made at the second ply was unmade, the first move still made
C1_Witness ==
    /\ last.op = "unmake"
    /\ last.kind \in {KindCastlingKingside, KindCastlingQueenside}
    /\ Len(stack) = 1

\* C2: in every reachable Board the maintained hash equals the hash computed
\* from scratch from the RawBoard (side key iff White to move, en-passant key
\* of the source if set, castling-rights key, one key per occupied square).
C2_HashFromScratch == pos.hash = RawBoard_zobrist_hash(pos.r)

\* a double pawn move was made and its en-passant key is in the hash
C2_Witness ==
    /\ last.op = "make"
    /\ last.kind = KindPawnDouble
    /\ pos.r.ep_src /= NoSq
    /\ zobrist_enpassant(pos.r.ep_src) \subseteq pos.hash

\* C3: in every reachable Board each cell bitboard is the set of squares
\* holding that cell (empty for Cell::None), each colour bitboard is the set of
\* squares holding a piece of the colour, and all() is their union.
C3_CacheFromMailbox ==
    /\ \A cell \in Cells :
          pos.cells[cell] = IF cell = CellNone THEN {}
                            ELSE {s \in Sq : pos.r.squares[s] = cell}
    /\ pos.white = {s \in Sq : Cell_color(pos.r.squares[s]) = White}
    /\ pos.black = {s \in Sq : Cell_color(pos.r.squares[s]) = Black}
    /\ pos.all_v = pos.white \cup pos.black

\* a promotion that captured was made
C3_Witness ==
    /\ last.op = "make"
    /\ last.kind \in PromoteKinds
    /\ stack /= <<>>
    /\ stack[Len(stack)].u.dst_cell /= CellNone

\* board.rs PartialEq for Board: two Boards are equal when their RawBoards are
Board_eq(x, y) == x.r = y.r

\* the number of squares of a mailbox holding a given cell / a colour's pieces
CountCell(squares, cell) == Cardinality({s \in Sq : squares[s] = cell})
CountColor(squares, c) == Cardinality({s \in Sq : Cell_color(squares[s]) = c})

\* C4: the position after a legal move converts back into a Board without
\* error, and that Board equals the one the move produced: one king each, at
\* most 16 pieces each, no pawn on rank 1 or 8, the side that moved not in
\* check, castling rights and en-passant source left as they are.
C4_MadePositionValid ==
    (last.op = "make" /\ last.kind /= KindNull) =>
        LET v == Board_try_from(pos.r)
        IN /\ v.err = "Ok"
           /\ Board_eq(v.board, pos)
           /\ v.board.r.castling = pos.r.castling
           /\ v.board.r.ep_src = pos.r.ep_src
           /\ \A c \in Colors : /\ CountCell(pos.r.squares, Cell_make(c, King)) = 1
                                /\ CountColor(pos.r.squares, c) <= 16
           /\ \A s \in bitboard_rank(R1) \cup bitboard_rank(R8) :
                 Cell_piece(pos.r.squares[s]) /= Pawn
           /\ ~Board_is_opponent_king_attacked(pos)

\* a rook left its home square, taking the castling right with it
C4_Witness ==
    /\ last.op = "make"
    /\ last.kind = KindSimple
    /\ stack /= <<>>
    /\ stack[Len(stack)].u.castling /= pos.r.castling

\* a capture: the destination held a piece of the other side, or en passant
IsCapture(board, mv) ==
    \/ mv.kind = KindEnpassant
    \/ /\ mv.kind \notin {KindNull, KindCastlingKingside, KindCastlingQueenside}
       /\ Cell_color(Board_get(board, mv.dst)) = inv(board.r.side)

IsPawnMove(board, mv) ==
    /\ mv.kind /= KindNull
    /\ Board_get(board, mv.src) = Cell_make(board.r.side, Pawn)

\* C10: after make_move the halfmove clock is 0 if the move was a capture or
\* a pawn move and the previous clock plus 1 otherwise (so always plus 1 after
\* a Null move and after castling).
C10_ClockRule ==
    [][Made =>
         LET mv == stack'[Len(stack')].mv
         IN pos'.r.move_counter =
               IF IsCapture(pos, mv) \/ IsPawnMove(pos, mv) THEN 0
               ELSE pos.r.move_counter + 1]_vars


\* ---------------------------------------- the machine of the checked entry
\* squares used to probe with move text that fits no piece
ProbeSqs == {Sq_make(FileA, R8), Sq_make(FileE, R5), Sq_make(FileE, R7),
             Sq_make(FileD, R4), Sq_make(FileH, R1)}

\* the (kind, src, dst) triples handed to Move::new: every well-formed move
\* from an occupied square, the castling moves, and every triple over ProbeSqs
MoveInputs(board) ==
    CastlingMoves
    \cup UNION {WellFormedFrom[s] : s \in {y \in Sq : Board_get(board, y) /= CellNone}}
    \cup [kind : MoveKinds, src : ProbeSqs, dst : ProbeSqs]

\* the source squares of entered move text: the occupied ones and ProbeSqs
UciSrcs(board) == {s \in Sq : Board_get(board, s) /= CellNone} \cup ProbeSqs

\* Move::new(kind, src, dst) followed by Board::make_move
BoardMakeMove(kind, src, dst) ==
    /\ game < MaxGame
    /\ IF Move_new(kind, src, dst) /= "Ok"
       THEN /\ last' = [op |-> "make_move", kind |-> KindNull, res |-> "NotWellFormed"]
            /\ UNCHANGED <<pos, game>>
       ELSE LET mv == Move_new_unchecked(kind, src, dst)
                out == Board_make_move(pos, mv)
            IN /\ pos' = out.board
               /\ game' = IF out.res = "Ok" THEN game + 1 ELSE game
               /\ last' = [op |-> "make_move",
                           kind |-> IF out.res = "Ok" THEN kind ELSE KindNull,
                           res |-> out.res]
    /\ UNCHANGED <<stack, draft, edits, vres, walk, text, comm, stops, feature_slice>>

\* Board::make_uci_move on parsed move text: into_move, validate, make
MakeUciMove(src, dst, promote) ==
    /\ game < MaxGame
    /\ LET m == UciMove_into_move(src, dst, promote, pos)
       IN IF m.err /= "Ok"
          THEN /\ last' = [op |-> "make_uci_move", kind |-> KindNull, res |-> m.err]
               /\ UNCHANGED <<pos, game>>
          ELSE LET out == Board_make_move(pos, m.mv)
               IN /\ pos' = out.board
                  /\ game' = IF out.res = "Ok" THEN game + 1 ELSE game
                  /\ last' = [op |-> "make_uci_move",
                              kind |-> IF out.res = "Ok" THEN m.mv.kind ELSE KindNull,
                              res |-> out.res]
    /\ UNCHANGED <<stack, draft, edits, vres, walk, text, comm, stops, feature_slice>>

NextGame ==
    \/ \E m \in MoveInputs(pos) : BoardMakeMove(m.kind, m.src, m.dst)
    \/ \E src \in UciSrcs(pos), dst \in Sq, promote \in {NoPiece, Knight, Bishop, Rook, Queen} :
          MakeUciMove(src, dst, promote)

SpecGame == Init /\ [][NextGame]_vars

\* ------------------------------------------ properties of the checked entry
\* the Board after the move was really made, and whether the king of the
\* side that moved is then attacked
KingAttackedAfter(board, mv) ==
    Board_is_opponent_king_attacked(make_move_unchecked(board, mv))

\* C5: for every semilegal move of the position, is_legal_unchecked (computed
\* without making the move) is true exactly when the mover's king is not
\* attacked once the move is made.
C5_LegalIffKingSafe ==
    \A mv \in SemiLegalMoves(pos) :
        Move_is_legal_unchecked(mv, pos) <=> ~KingAttackedAfter(pos, mv)

\* after a double pawn move an en-passant capture is semilegal and illegal:
\* taking both pawns off the rank opens it between the rook and the king
C5_Witness ==
    /\ last.op = "make_move"
    /\ last.kind = KindPawnDouble
    /\ \E mv \in SemiLegalMoves(pos) :
          /\ mv.kind = KindEnpassant
          /\ ~Move_is_legal_unchecked(mv, pos)
          /\ KingAttackedAfter(pos, mv)
          /\ ~Board_is_check(pos)

\* what Board::make_move is to return for a well-formed move
ExpectedResult(board, mv) ==
    IF ~Move_is_semilegal(mv, board) THEN "NotSemiLegal"
    ELSE IF KingAttackedAfter(board, mv) THEN "NotLegal"
    ELSE "Ok"

\* every well-formed move gets its variant, and an error leaves the Board as
\* it is; move text whose source holds no piece of the side to move is
\* NotWellFormed
C6_Dispatch ==
    /\ \A mv \in {m \in MoveInputs(pos) : Move_is_well_formed(m)} :
          LET out == Board_make_move(pos, mv)
          IN /\ out.res = ExpectedResult(pos, mv)
             /\ out.res /= "Ok" => out.board = pos
             /\ out.res = "Ok" => out.board = make_move_unchecked(pos, mv)
    /\ \A src \in {s \in UciSrcs(pos) : Cell_color(Board_get(pos, s)) /= pos.r.side},
          dst \in Sq, promote \in {NoPiece, Queen} :
          UciMove_into_move(src, dst, promote, pos).err = "NotWellFormed"

\* a call that returned an error changed nothing; a call that returned Ok made
\* a move that fits the position and leaves the mover's king unattacked
C6_Step ==
    (last'.op \in {"make_move", "make_uci_move"}) =>
        /\ last'.res \in {"Ok", "NotWellFormed", "NotSemiLegal", "NotLegal"}
        /\ last'.res /= "Ok" => pos' = pos
        /\ last'.res = "Ok" =>
              /\ pos' /= pos
              /\ ~Board_is_opponent_king_attacked(pos')

\* C6: Board::make_move on a well-formed move returns NotSemiLegal when the
\* move does not fit the position, otherwise NotLegal when it would leave the
\* mover's king attacked, otherwise applies it; both errors leave the Board
\* unchanged; shape errors are NotWellFormed from Move::new / from_uci, also
\* when the source square holds no piece of the side to move.
C6_MakeMoveErrors == []C6_Dispatch /\ [][C6_Step]_vars

\* Board::make_move refused a semilegal move that exposes the king
C6_Witness ==
    /\ last.op = "make_move"
    /\ last.res = "NotLegal"


\* ------------------------------------- the machine of RawBoard validation
\* the RawBoards editing starts from
BaseRaws == {RawBoard_empty, RawBoard_start, RawFixExample, RawPawns, RawPawnsBlack,
             RawCastlingA, RawRookCapture}

\* the squares and cells of the edits: the castling home squares and the
\* squares an en-passant source and its passed square can be on
EditSqs == {Sq_make(FileA, R8), Sq_make(FileE, R8), Sq_make(FileH, R8),
            Sq_make(FileE, R6), Sq_make(FileC, R5), Sq_make(FileE, R5),
            Sq_make(FileE, R4), Sq_make(FileE, R3),
            Sq_make(FileA, R1), Sq_make(FileE, R1), Sq_make(FileH, R1)}
EditCells == {CellNone, WhitePawn, BlackPawn, WhiteKing, BlackKing, WhiteRook, BlackRook,
              WhiteKnight}

InitValidate ==
    /\ pos = Board_try_from(RawCastlingA).board
    /\ stack = <<>>
    /\ game = 0
    /\ feature_slice = NoSlice
    /\ comm = NoComm
    /\ stops = NoStops
    /\ last = [op |-> "init", kind |-> KindNull, res |-> "Ok"]
    /\ draft \in BaseRaws
    /\ edits = 0
    /\ vres = NotValidated
    /\ walk = NoWalk
    /\ text = NoText

CanEdit == edits < MaxEdits /\ vres = NotValidated

\* RawBoard::put
Put(s, cell) ==
    /\ CanEdit
    /\ draft' = RawBoard_put(draft, s, cell)
    /\ edits' = edits + 1
    /\ UNCHANGED <<pos, stack, game, last, vres, walk, text, comm, stops, feature_slice>>

\* assignments to the public fields side, castling and ep_src
SetSide(c) ==
    /\ CanEdit
    /\ draft' = [draft EXCEPT !.side = c]
    /\ edits' = edits + 1
    /\ UNCHANGED <<pos, stack, game, last, vres, walk, text, comm, stops, feature_slice>>

SetCastling(cr) ==
    /\ CanEdit
    /\ draft' = [draft EXCEPT !.castling = cr]
    /\ edits' = edits + 1
    /\ UNCHANGED <<pos, stack, game, last, vres, walk, text, comm, stops, feature_slice>>

SetEpSrc(p) ==
    /\ CanEdit
    /\ draft' = [draft EXCEPT !.ep_src = p]
    /\ edits' = edits + 1
    /\ UNCHANGED <<pos, stack, game, last, vres, walk, text, comm, stops, feature_slice>>

\* Board::try_from(draft): the draft is passed by value and stays as it is
Validate ==
    /\ vres = NotValidated
    /\ walk = NoWalk
    /\ text = NoText
    /\ vres' = Board_try_from(draft)
    /\ UNCHANGED <<pos, stack, game, last, draft, edits, walk, text, comm, stops, feature_slice>>

NextValidate ==
    \/ \E s \in EditSqs, cell \in EditCells : Put(s, cell)
    \/ \E c \in Colors : SetSide(c)
    \/ \E cr \in SUBSET CastlingRights_FULL : SetCastling(cr)
    \/ \E p \in EditSqs \cup {NoSq} : SetEpSrc(p)
    \/ Validate

SpecValidate == InitValidate /\ [][NextValidate]_vars

\* ------------------------------------------------ properties of validation
\* Attacks read off the mailbox square by square, without the bitboards.
RefBetween(a, z) ==
    {x \in Sq \ {a, z} :
        LET fa == Sq_file(a)
            ra == Sq_rank(a)
            fz == Sq_file(z)
            rz == Sq_rank(z)
            fx == Sq_file(x)
            rx == Sq_rank(x)
            within(lo, mid, hi) == (lo < mid /\ mid < hi) \/ (hi < mid /\ mid < lo)
        IN \/ fa = fz /\ fx = fa /\ within(ra, rx, rz)
           \/ ra = rz /\ rx = ra /\ within(fa, fx, fz)
           \/ /\ abs_diff(fa, fz) = abs_diff(ra, rz)
              /\ abs_diff(fx, fa) = abs_diff(rx, ra)
              /\ abs_diff(fx, fz) = abs_diff(rx, rz)
              /\ within(fa, fx, fz)
              /\ within(ra, rx, rz)}

RefAttacks(squares, from, to) ==
    LET cell == squares[from]
        p == Cell_piece(cell)
        df == abs_diff(Sq_file(from), Sq_file(to))
        dr == abs_diff(Sq_rank(from), Sq_rank(to))
        clear == \A x \in RefBetween(from, to) : squares[x] = CellNone
        line == (df = 0 \/ dr = 0) /\ from /= to /\ clear
        diag == df = dr /\ from /= to /\ clear
    IN CASE p = Pawn -> /\ df = 1
                        /\ Sq_rank(to) = Sq_rank(from) + (IF Cell_color(cell) = White
                                                          THEN -1 ELSE 1)
         [] p = Knight -> {df, dr} = {1, 2}
         [] p = King -> df <= 1 /\ dr <= 1 /\ from /= to
         [] p = Bishop -> diag
         [] p = Rook -> line
         [] p = Queen -> diag \/ line
         [] OTHER -> FALSE

\* a king of colour c stands on a square a piece of the other colour attacks
RefInCheck(squares, c) ==
    \E k \in Sq : /\ squares[k] = Cell_make(c, King)
                  /\ \E s \in Sq : /\ Cell_color(squares[s]) = inv(c)
                                   /\ RefAttacks(squares, s, k)

TooManyOf(squares, c) == CountColor(squares, c) > 16
KingsWrong(squares) == \E c \in Colors : CountCell(squares, Cell_make(c, King)) /= 1
PawnOnEdge(squares) ==
    \E s \in Sq : Cell_piece(squares[s]) = Pawn /\ Sq_rank(s) \in {R1, R8}
EpOffRank(r) == r.ep_src /= NoSq /\ Sq_rank(r.ep_src) /= ep_src_rank(r.side)

\* the four causes of rejection the claim lists
ListedCause(r) ==
    \/ \E c \in Colors : TooManyOf(r.squares, c)
    \/ KingsWrong(r.squares)
    \/ PawnOnEdge(r.squares)
    \/ ~KingsWrong(r.squares) /\ RefInCheck(r.squares, inv(r.side))

\* every error variant names the cause it stands for
TypedError(r, v) ==
    /\ v.err = "BadEnpassant" => EpOffRank(r) /\ v.arg = r.ep_src
    /\ v.err = "TooManyPieces" => TooManyOf(r.squares, v.arg)
    /\ v.err = "NoKing" => CountCell(r.squares, Cell_make(v.arg, King)) = 0
    /\ v.err = "TooManyKings" => CountCell(r.squares, Cell_make(v.arg, King)) > 1
    /\ v.err = "BadPawn" => /\ Cell_piece(r.squares[v.arg]) = Pawn
                            /\ Sq_rank(v.arg) \in {R1, R8}
    /\ v.err = "OpponentKingAttacked" => RefInCheck(r.squares, inv(r.side))

\* C7 as amended: the conversion rejects a RawBoard exactly when a colour has
\* more than 16 pieces, a colour does not have exactly one king, a pawn stands
\* on rank 1 or 8, the side not to move is in check, or the en-passant source
\* is set on a rank other than the fifth of the side not to move (rank 5 with
\* White to move, rank 4 with Black to move); any other inconsistent
\* en-passant source or castling right never causes a rejection, and every
\* rejection is a typed error naming its cause.
C7_RejectsExactly ==
    vres /= NotValidated =>
        /\ vres.err /= "Ok" <=> (ListedCause(draft) \/ EpOffRank(draft))
        /\ TypedError(draft, vres)

\* a RawBoard was rejected for its en-passant source alone
C7_Witness ==
    /\ vres /= NotValidated
    /\ vres.err = "BadEnpassant"
    /\ ~ListedCause(draft)

\* C7 as stated: rejection exactly on the four listed causes, an inconsistent
\* en-passant source never being a cause by itself.
C7_Original ==
    vres /= NotValidated =>
        /\ vres.err /= "Ok" <=> ListedCause(draft)
        /\ TypedError(draft, vres)

\* C8: on an accepted RawBoard the en-passant source is cleared iff its square
\* does not hold a pawn of the side that just moved or the square that pawn
\* passed over is occupied; each castling right is cleared iff the king is not
\* on its e-file home square or the rook of that side is not on its a/h-file
\* home square; mailbox, side and both clocks are unchanged; the example FEN
\* "... w KQkq c6 6 5" keeps the castling right Q only and no en-passant source.
C8_Normalized ==
    (vres /= NotValidated /\ vres.err = "Ok") =>
        LET out == vres.board.r
            sq == draft.squares
            p == draft.ep_src
            passed == Sq_make(Sq_file(p), ep_dst_rank(draft.side))
            ep_cleared == \/ sq[p] /= Cell_make(inv(draft.side), Pawn)
                          \/ sq[passed] /= CellNone
            home(c, file) == Sq_make(file, IF c = White THEN R1 ELSE R8)
            right_cleared(c, s) ==
                \/ sq[home(c, FileE)] /= Cell_make(c, King)
                \/ sq[home(c, IF s = KingSide THEN FileH ELSE FileA)] /= Cell_make(c, Rook)
        IN /\ out.squares = sq
           /\ out.side = draft.side
           /\ out.move_counter = draft.move_counter
           /\ out.move_number = draft.move_number
           /\ p = NoSq => out.ep_src = NoSq
           /\ p /= NoSq => out.ep_src = IF ep_cleared THEN NoSq ELSE p
           /\ \A c \in Colors, s \in CastlingSides :
                 CastlingRights_has(out.castling, c, s)
                    <=> (CastlingRights_has(draft.castling, c, s) /\ ~right_cleared(c, s))
           /\ draft = RawFixExample =>
                 /\ out.castling = {CastlingRights_to_index(White, QueenSide)}
                 /\ out.ep_src = NoSq

\* the example position was validated
C8_Witness ==
    /\ vres /= NotValidated
    /\ vres.err = "Ok"
    /\ draft = RawFixExample
    /\ vres.board.r.castling /= draft.castling
    /\ vres.board.r.ep_src /= draft.ep_src


\* ------------------------------------------------------------- movegen.rs
GEN_SIMPLE == 1
GEN_CAPTURE == 2
GEN_SIMPLE_PROMOTE == 4
GEN_CASTLING == 8
\* a MASK is the set of its bits
has_bit(mask, bit) == bit \in mask
GEN_ALL_MASK == {GEN_SIMPLE, GEN_CAPTURE, GEN_SIMPLE_PROMOTE, GEN_CASTLING}

\* impl From<&Board> for MoveGenCtx
\* faulty variant: any number of attackers is treated like a single one
MoveGenCtx_from_first(b) ==
    LET king == Board_king_pos(b, b.r.side)
        king_attackers == Board_checkers(b)
    IN IF king_attackers = {}
       THEN [check_mask |-> Bitboard_FULL, check |-> "None", hash |-> b.hash]
       ELSE [check_mask |-> between(BitboardFirst(king_attackers), king)
                            \cup king_attackers,
             check |-> "Single", hash |-> b.hash]

MoveGenCtx_from(b) ==
    LET king == Board_king_pos(b, b.r.side)
        king_attackers == Board_checkers(b)
        n == Cardinality(king_attackers)
    IN IF n = 0
       THEN [check_mask |-> Bitboard_FULL, check |-> "None", hash |-> b.hash]
       ELSE IF n = 1
       THEN [check_mask |-> between(BitboardFirst(king_attackers), king)
                            \cup king_attackers,
             check |-> "Single", hash |-> b.hash]
       ELSE [check_mask |-> Bitboard_EMPTY, check |-> "Double", hash |-> b.hash]

PROMOTES == {KindPromoteKnight, KindPromoteBishop, KindPromoteRook, KindPromoteQueen}

\* The moves pushed by do_gen2, as a set: every push differs from every other
\* one in its kind, its source or its destination, so the list has as many
\* entries as the set has elements.
do_gen2(b, ctx, c, MASK) ==
    LET all == Board_all(b)
        simple == has_bit(MASK, GEN_SIMPLE)
        capture == has_bit(MASK, GEN_CAPTURE)
        simple_promote == has_bit(MASK, GEN_SIMPLE_PROMOTE)
        raw_dst_mask == IF simple /\ capture THEN BitNot(Board_color(b, c))
                        ELSE IF simple THEN BitNot(all)
                        ELSE Board_color(b, inv(c))
        dst_mask == raw_dst_mask \cap ctx.check_mask
        pushes(kinds, dsts, delta) ==
            {Move_new_unchecked(k, d - delta, d) : k \in kinds, d \in dsts}
        from(s, dsts) == {Move_new_unchecked(KindSimple, s, d) : d \in dsts}
        pieces ==
            IF simple \/ capture
            THEN UNION {from(s, attack_king(s) \cap raw_dst_mask) :
                        s \in Board_piece(b, c, King)}
                 \cup UNION {from(s, (attack_rook(s, all) \cup attack_bishop(s, all))
                                     \cap dst_mask) : s \in Board_piece(b, c, Queen)}
                 \cup UNION {from(s, attack_rook(s, all) \cap dst_mask) :
                             s \in Board_piece(b, c, Rook)}
                 \cup UNION {from(s, attack_bishop(s, all) \cap dst_mask) :
                             s \in Board_piece(b, c, Bishop)}
                 \cup UNION {from(s, attack_knight(s) \cap dst_mask) :
                             s \in Board_piece(b, c, Knight)}
            ELSE {}
        pawn == Board_piece(b, c, Pawn)
        promote == bitboard_rank(promote_src_rank(c))
        double == bitboard_rank(double_move_src_rank(c))
        fwd == pawn_forward_delta(c)
        pawn_simple ==
            IF simple
            THEN pushes({KindPawnSimple},
                        (advance_forward(c, pawn \cap BitNot(promote)) \cap BitNot(all))
                        \cap ctx.check_mask, fwd)
                 \cup LET pawn_tmp == advance_forward(c, pawn \cap double) \cap BitNot(all)
                      IN pushes({KindPawnDouble},
                                (advance_forward(c, pawn_tmp) \cap BitNot(all))
                                \cap ctx.check_mask, 2 * fwd)
            ELSE {}
        pawn_promote ==
            IF simple_promote
            THEN pushes(PROMOTES,
                        (advance_forward(c, pawn \cap promote) \cap BitNot(all))
                        \cap ctx.check_mask, fwd)
            ELSE {}
        cap_mask == Board_color(b, inv(c)) \cap ctx.check_mask
        pawn_capture ==
            IF capture
            THEN LET plain == pawn \cap BitNot(promote)
                     last_rank == pawn \cap promote
                 IN pushes({KindPawnSimple}, advance_left(c, plain) \cap cap_mask,
                           pawn_left_delta(c))
                    \cup pushes({KindPawnSimple}, advance_right(c, plain) \cap cap_mask,
                                pawn_right_delta(c))
                    \cup pushes(PROMOTES, advance_left(c, last_rank) \cap cap_mask,
                                pawn_left_delta(c))
                    \cup pushes(PROMOTES, advance_right(c, last_rank) \cap cap_mask,
                                pawn_right_delta(c))
            ELSE {}
        enpassant ==
            IF capture /\ b.r.ep_src /= NoSq
            THEN LET ep == b.r.ep_src
                     file == Sq_file(ep)
                     dst == ep + fwd
                     lp == ep - 1
                     rp == ep + 1
                     own == Cell_make(c, Pawn)
                 IN (IF file /= FileA /\ Board_get(b, lp) = own
                     THEN {Move_new_unchecked(KindEnpassant, lp, dst)} ELSE {})
                    \cup (IF file /= FileH /\ Board_get(b, rp) = own
                          THEN {Move_new_unchecked(KindEnpassant, rp, dst)} ELSE {})
            ELSE {}
        rank == castling_rank(c)
        src == Sq_make(FileE, rank)
        castle(side, kind, tmp_file, dst_file) ==
            IF /\ CastlingRights_has(b.r.castling, c, side)
               /\ castling_pass(c, side) \cap all = {}
               /\ ~is_square_attacked(b, Sq_make(tmp_file, rank), inv(c))
            THEN {Move_new_unchecked(kind, src, Sq_make(dst_file, rank))}
            ELSE {}
        castling ==
            IF /\ has_bit(MASK, GEN_CASTLING)
               /\ ctx.check = "None"
               /\ CastlingRights_has_color(b.r.castling, c)
            THEN castle(QueenSide, KindCastlingQueenside, FileD, FileC)
                 \cup castle(KingSide, KindCastlingKingside, FileF, FileG)
            ELSE {}
    IN pieces \cup pawn_simple \cup pawn_promote \cup pawn_capture \cup enpassant
       \cup castling

do_gen(b, ctx, MASK) == do_gen2(b, ctx, b.r.side, MASK)

\* faulty variant: only the captures are generated
MoveGen_gen_all_captures(b) == do_gen(b, MoveGenCtx_from(b), {GEN_CAPTURE})

\* MoveGen::new(b).gen_all
MoveGen_gen_all(b) == do_gen(b, MoveGenCtx_from(b), GEN_ALL_MASK)


\* ----------------------------------------------- tests/test_perft.rs: do_perft
\* moves.retain(|m| m.is_legal_unchecked(b)) on the list of gen_all
PerftMoves(b) == {m \in MoveGen_gen_all(b) : Move_is_legal_unchecked(m, b)}

\* do_perft(b, depth): the number of leaves under b and the board the walk
\* leaves behind.  Every move is made on the board the previous unmake has
\* left; the sum of the subtree counts is the count of the walk when each
\* unmake has given back the board its make started from, and no count
\* (PerftBroken) otherwise.
PerftBroken == [n |-> -1, board |-> <<>>]

\* The sum of f[x] over the x of S, for naturals f[x]: a bag holds each x
\* at least once, so every count is taken one higher and S is taken off.
SumOver(S, f) == BagCardinality([x \in S |-> f[x] + 1]) - Cardinality(S)

RECURSIVE do_perft(_, _)
do_perft(b, depth) ==
    IF depth = 0 THEN [n |-> 1, board |-> b]
    ELSE LET moves == PerftMoves(b)
         IN IF depth = 1 THEN [n |-> Cardinality(moves), board |-> b]
            ELSE LET sub == Table([mv \in moves |->
                               LET u == RawUndo_of(b, mv)
                                   res == do_perft(make_move_unchecked(b, mv), depth - 1)
                               IN IF res = PerftBroken THEN PerftBroken
                                  ELSE [n |-> res.n,
                                        board |-> unmake_move_unchecked(res.board, mv, u)]])
                 IN IF \A mv \in moves : sub[mv] /= PerftBroken /\ sub[mv].board = b
                    THEN [n |-> SumOver(moves, Table([mv \in moves |-> sub[mv].n])),
                          board |-> b]
                    ELSE PerftBroken

\* ------------------------------------------------------------ perft cases
\* r3k2r/p1ppqpb1/bn2pnp1/3PN3/1p2P3/2N2Q1p/PPPBBPPP/R3K2R w KQkq - 0 1
RawKiwipete ==
    RawOf(<< <<BR, ee, ee, ee, BK, ee, ee, BR>>,
             <<BP, ee, BP, BP, BQ, BP, BB, ee>>,
             <<BB, BN, ee, ee, BP, BN, BP, ee>>,
             <<ee, ee, ee, WP, WN, ee, ee, ee>>,
             <<ee, BP, ee, ee, WP, ee, ee, ee>>,
             <<ee, ee, WN, ee, ee, WQ, ee, BP>>,
             <<WP, WP, WP, WB, WB, WP, WP, WP>>,
             <<WR, ee, ee, ee, WK, ee, ee, WR>> >>,
          White, CastlingRights_FULL, NoSq, 0, 1)

\* the cases "jordan_kiwipete" and "initial" of CASES: position and depth
CASES ==
    {[name |-> "jordan_kiwipete", raw |-> RawKiwipete, depth |-> 4],
     [name |-> "initial", raw |-> RawBoard_start, depth |-> 4]}

\* depth of the walks the machine makes move by move
MaxWalk == 3

\* Case::run_perft up to the call of do_perft: the position is built and the
\* legal moves of the root are listed; the machine walks the tree of a case
\* to a depth of MaxWalk at most
InitPerft ==
    /\ \E case \in CASES : \E depth \in 1..MaxWalk :
          /\ pos = Board_try_from(case.raw).board
          /\ walk = [name |-> case.name, depth |-> depth,
                     todo |-> PerftMoves(pos), n |-> 0]
    /\ stack = <<>>
    /\ game = 0
    /\ feature_slice = NoSlice
    /\ comm = NoComm
    /\ stops = NoStops
    /\ last = [op |-> "init", kind |-> KindNull, res |-> "Ok"]
    /\ draft = RawBoard_empty
    /\ edits = 0
    /\ vres = NotValidated
    /\ text = NoText

\* the next move of the root's list is made
PerftMake ==
    /\ walk.todo /= {}
    /\ stack = <<>>
    /\ LET mv == CHOOSE x \in walk.todo : TRUE
       IN /\ pos' = make_move_unchecked(pos, mv)
          /\ stack' = <<[mv |-> mv, u |-> RawUndo_of(pos, mv), before |-> pos]>>
          /\ last' = [op |-> "make", kind |-> mv.kind, res |-> "Ok"]
    /\ UNCHANGED <<game, draft, edits, vres, walk, text, comm, stops, feature_slice>>

\* do_perft(b, depth - 1) on the Board after the move
PerftCount ==
    /\ stack /= <<>>
    /\ last.op = "make"
    /\ \E res \in {do_perft(pos, walk.depth - 1)} :
          /\ pos' = res.board
          /\ walk' = [walk EXCEPT !.n = @ + res.n]
    /\ last' = [last EXCEPT !.op = "count"]
    /\ UNCHANGED <<stack, game, draft, edits, vres, text, comm, stops, feature_slice>>

\* the move is unmade with its undo and leaves the list
PerftUnmake ==
    /\ stack /= <<>>
    /\ last.op = "count"
    /\ LET top == stack[1]
       IN /\ pos' = unmake_move_unchecked(pos, top.mv, top.u)
          /\ walk' = [walk EXCEPT !.todo = @ \ {top.mv}]
          /\ last' = [op |-> "unmake", kind |-> top.mv.kind, res |-> "Ok"]
    /\ stack' = <<>>
    /\ UNCHANGED <<game, draft, edits, vres, text, comm, stops, feature_slice>>

NextPerft ==
    \/ PerftMake
    \/ PerftCount
    \/ PerftUnmake

SpecPerft == InitPerft /\ [][NextPerft]_vars

\* C9: do_perft, counting the leaves of the tree of gen_all filtered by
\* is_legal_unchecked and walked with make_move_unchecked and
\* unmake_move_unchecked, gives 197281 at depth 4 from the start position
\* and 4085603 at depth 4 from the Kiwipete position, and leaves the Board as
\* it was; a walk made move by move counts what do_perft counts.
C9_PerftValues ==
    /\ (last.op = "init" /\ walk.depth = MaxWalk) =>
           \A case \in CASES : case.name = walk.name =>
               /\ case.depth = 4
               /\ do_perft(pos, case.depth) =
                      [n |-> IF case.name = "initial" THEN 197281 ELSE 4085603,
                       board |-> pos]
    /\ (walk /= NoWalk /\ walk.todo = {} /\ stack = <<>>) =>
           walk.n = do_perft(pos, walk.depth).n

\* the Kiwipete walk is over, every move unmade, on the Board it began with
C9_Witness ==
    /\ walk /= NoWalk
    /\ walk.name = "jordan_kiwipete"
    /\ walk.todo = {}
    /\ walk.depth = MaxWalk
    /\ walk.n > 0
    /\ last.op = "unmake"
    /\ pos = Board_try_from(RawKiwipete).board

\* ----------------------------------------------------- the Null move
\* the move just made (the step's new top of the stack) is Move::NULL
MadeNull == Made /\ stack'[Len(stack')].mv.kind = KindNull

\* C11: make_move_unchecked(Move::NULL) leaves the mailbox, every cell
\* bitboard, both colour bitboards, the occupancy and the castling rights as
\* they were; the side to move flips and the hash changes by the side key
\* and, when an en-passant source was set, by that source's key.
C11_NullFrame ==
    [][MadeNull =>
         /\ pos'.r.squares = pos.r.squares
         /\ pos'.cells = pos.cells
         /\ pos'.white = pos.white
         /\ pos'.black = pos.black
         /\ pos'.all_v = pos.all_v
         /\ pos'.r.castling = pos.r.castling
         /\ pos'.r.side = inv(pos.r.side)
         /\ pos'.hash = HashXor(HashXor(pos.hash, zobrist_MOVE_SIDE),
                                IF pos.r.ep_src /= NoSq
                                THEN zobrist_enpassant(pos.r.ep_src)
                                ELSE HashZero)]_vars

\* a Null move was made on a Board whose en-passant source was set
C11_Witness ==
    /\ last.op = "make"
    /\ last.kind = KindNull
    /\ stack /= <<>>
    /\ stack[Len(stack)].mv = Move_NULL
    /\ stack[Len(stack)].before.r.ep_src /= NoSq
    /\ pos.r.ep_src = NoSq

\* ------------------------------------------------ castling rights and moves
\* the home squares of the king and of the rook of a castling side
KingHome(c) == Sq_make(FileE, IF c = White THEN R1 ELSE R8)
RookHome(c, s) == Sq_make(IF s = KingSide THEN FileH ELSE FileA,
                          IF c = White THEN R1 ELSE R8)

\* every right held has its king and its rook on their home squares
RightsMatchMailbox(board) ==
    \A c \in Colors, s \in CastlingSides :
        CastlingRights_has(board.r.castling, c, s) =>
            /\ board.r.squares[KingHome(c)] = Cell_make(c, King)
            /\ board.r.squares[RookHome(c, s)] = Cell_make(c, Rook)

\* the move leaves or lands on the king's or the rook's home square
TouchesHome(mv, c, s) ==
    /\ mv.kind /= KindNull
    /\ {mv.src, mv.dst} \cap {KingHome(c), RookHome(c, s)} /= {}

\* a made move takes away exactly the rights whose home squares it touches
C12_Step ==
    Made =>
        LET mv == stack'[Len(stack')].mv
        IN \A c \in Colors, s \in CastlingSides :
              CastlingRights_has(pos'.r.castling, c, s) <=>
                  /\ CastlingRights_has(pos.r.castling, c, s)
                  /\ ~TouchesHome(mv, c, s)

\* C12: a castling right is held only while the king and the rook of that
\* side stand on their home squares; a made move never adds a right and
\* revokes a right exactly when it leaves or lands on (captures on) the
\* king's or that rook's home square, a capture by a promoting pawn included.
C12_CastlingShrinks == [](RightsMatchMailbox(pos)) /\ [][C12_Step]_vars

\* a promoting pawn captured a rook on its home square and took its right
C12_Witness ==
    /\ last.op = "make"
    /\ last.kind \in PromoteKinds
    /\ stack /= <<>>
    /\ stack[Len(stack)].u.dst_cell \in {WhiteRook, BlackRook}
    /\ stack[Len(stack)].u.castling /= pos.r.castling
    /\ RightsMatchMailbox(pos)

\* ------------------------------------------------------------------ diff.rs
\* A listener is modelled by the sequence of the notifications it was sent,
\* each one the square, the old cell and the new cell.
DiffListener_upd(sq, old, new) == <<[sq |-> sq, old |-> old, new |-> new]>>
DiffListener_add(sq, new) == DiffListener_upd(sq, CellNone, new)
\* faulty variant: the removed cell reported as the new one
DiffListener_del_swapped(sq, old) == DiffListener_upd(sq, CellNone, old)
DiffListener_del(sq, old) == DiffListener_upd(sq, old, CellNone)

\* moves.rs do_diff_after_move::<C>: b is the Board after the move, c the
\* colour that moved
do_diff_after_move(b, mv, u, c) ==
    LET src_cell == Board_get(b, mv.dst)
        rank == castling_rank(c)
        king == Cell_make(c, King)
        rook == Cell_make(c, Rook)
    IN CASE mv.kind \in {KindSimple, KindPawnSimple, KindPawnDouble} ->
              DiffListener_del(mv.src, src_cell)
              \o DiffListener_upd(mv.dst, u.dst_cell, src_cell)
         [] mv.kind \in PromoteKinds ->
              DiffListener_del(mv.src, Cell_make(c, Pawn))
              \o DiffListener_upd(mv.dst, u.dst_cell, src_cell)
         [] mv.kind = KindCastlingKingside ->
              DiffListener_del(Sq_make(FileE, rank), king)
              \o DiffListener_add(Sq_make(FileF, rank), rook)
              \o DiffListener_add(Sq_make(FileG, rank), king)
              \o DiffListener_del(Sq_make(FileH, rank), rook)
         [] mv.kind = KindCastlingQueenside ->
              DiffListener_del(Sq_make(FileE, rank), king)
              \o DiffListener_add(Sq_make(FileD, rank), rook)
              \o DiffListener_add(Sq_make(FileC, rank), king)
              \o DiffListener_del(Sq_make(FileA, rank), rook)
         [] mv.kind = KindEnpassant ->
              LET tmp == mv.dst - pawn_forward_delta(c)
              IN DiffListener_del(mv.src, Cell_make(c, Pawn))
                 \o DiffListener_del(tmp, Cell_make(inv(c), Pawn))
                 \o DiffListener_add(mv.dst, Cell_make(c, Pawn))
         [] mv.kind = KindNull -> <<>>

\* moves.rs diff_after_move: the colour that moved is the one not to move now
diff_after_move(b, mv, u) == do_diff_after_move(b, mv, u, inv(b.r.side))

\* diff.rs after_move
after_move(b, mv, u) == diff_after_move(b, mv, u)

\* the mailbox after the notifications were applied to it in order
RECURSIVE Replay(_, _)
Replay(squares, notes) ==
    IF notes = <<>> THEN squares
    ELSE Replay([squares EXCEPT ![Head(notes).sq] = Head(notes).new], Tail(notes))

\* the number of notifications the claim gives for a kind of move
DiffCount(kind) ==
    IF kind \in {KindCastlingKingside, KindCastlingQueenside} THEN 4
    ELSE IF kind = KindEnpassant THEN 3
    ELSE IF kind = KindNull THEN 0
    ELSE 2

\* C13: after a made move, the notifications of diff::after_move name exactly
\* the squares whose cell differs between the Board before and the Board
\* after, each once, with the cell before as old and the cell after as new;
\* replayed on the mailbox before they give the mailbox after; there are 4
\* of them for castling, 3 for en passant, 0 for Null and 2 otherwise.
C13_DiffExact ==
    (last.op = "make" /\ stack /= <<>>) =>
        LET top == stack[Len(stack)]
            old == top.before.r.squares
            new == pos.r.squares
            notes == after_move(pos, top.mv, top.u)
            idx == 1..Len(notes)
        IN /\ {notes[i].sq : i \in idx} = {s \in Sq : old[s] /= new[s]}
           /\ \A i, j \in idx : notes[i].sq = notes[j].sq => i = j
           /\ \A i \in idx : /\ notes[i].old = old[notes[i].sq]
                             /\ notes[i].new = new[notes[i].sq]
           /\ Replay(old, notes) = new
           /\ Len(notes) = DiffCount(top.mv.kind)

\* an en-passant capture was made and reported with its three notifications
C13_Witness ==
    /\ last.op = "make"
    /\ last.kind = KindEnpassant
    /\ stack /= <<>>
    /\ Len(after_move(pos, stack[Len(stack)].mv, stack[Len(stack)].u)) = 3

\* ------------------------------------- movegen.rs: the other entry points
MoveGen_gen_capture(b) == do_gen(b, MoveGenCtx_from(b), {GEN_CAPTURE})
\* faulty variant: the captures are generated with the simple moves
MoveGen_gen_simple_with_captures(b) ==
    do_gen(b, MoveGenCtx_from(b), {GEN_SIMPLE, GEN_CAPTURE, GEN_SIMPLE_PROMOTE, GEN_CASTLING})

MoveGen_gen_simple(b) ==
    do_gen(b, MoveGenCtx_from(b), {GEN_SIMPLE, GEN_SIMPLE_PROMOTE, GEN_CASTLING})
MoveGen_gen_simple_no_promote(b) ==
    do_gen(b, MoveGenCtx_from(b), {GEN_SIMPLE, GEN_CASTLING})
MoveGen_gen_simple_promote(b) == do_gen(b, MoveGenCtx_from(b), {GEN_SIMPLE_PROMOTE})

\* ----------------------------------------------- positions for generation
\* 8/8/8/2k5/3Pp3/8/8/4K3 b - d3 0 1: the pawn that just moved to d4 gives
\* check and can be taken en passant
RawEpCheck ==
    RawOf(<< EmptyRank, EmptyRank, EmptyRank, <<ee, ee, BK, ee, ee, ee, ee, ee>>,
             <<ee, ee, ee, WP, BP, ee, ee, ee>>, EmptyRank, EmptyRank,
             <<ee, ee, ee, ee, WK, ee, ee, ee>> >>,
          Black, {}, Sq_make(FileD, R4), 0, 1)

\* 4k3/8/8/8/8/8/3PN3/R3K2r w Q - 0 1: check by the rook on h1
RawBlockCheck ==
    RawOf(<< <<ee, ee, ee, ee, BK, ee, ee, ee>>, EmptyRank, EmptyRank, EmptyRank,
             EmptyRank, EmptyRank, <<ee, ee, ee, WP, WN, ee, ee, ee>>,
             <<WR, ee, ee, ee, WK, ee, ee, BR>> >>,
          White, {CastlingRights_to_index(White, QueenSide)}, NoSq, 0, 1)

\* 4k3/1P6/8/3pP3/8/3n1n2/8/R3K3 w Q d6 0 1: check by both knights, with an
\* en-passant source set
RawDoubleCheck ==
    RawOf(<< <<ee, ee, ee, ee, BK, ee, ee, ee>>, <<ee, WP, ee, ee, ee, ee, ee, ee>>,
             EmptyRank, <<ee, ee, ee, BP, WP, ee, ee, ee>>, EmptyRank,
             <<ee, ee, ee, BN, ee, BN, ee, ee>>, EmptyRank,
             <<WR, ee, ee, ee, WK, ee, ee, ee>> >>,
          White, {CastlingRights_to_index(White, QueenSide)}, Sq_make(FileD, R5), 0, 1)

\* 4k1r1/8/8/8/b7/8/8/R3K2R w KQ - 0 1: g1 and d1 are attacked, f1 is not
RawCastleThrough ==
    RawOf(<< <<ee, ee, ee, ee, BK, ee, BR, ee>>, EmptyRank, EmptyRank, EmptyRank,
             <<BB, ee, ee, ee, ee, ee, ee, ee>>, EmptyRank, EmptyRank,
             <<WR, ee, ee, ee, WK, ee, ee, WR>> >>,
          White, {CastlingRights_to_index(White, QueenSide),
                  CastlingRights_to_index(White, KingSide)}, NoSq, 0, 1)

\* r3k2r/8/8/8/8/8/8/1R2K3 b kq - 0 1: b8 is attacked, d8 is not
RawCastleBlack ==
    RawOf(<< <<BR, ee, ee, ee, BK, ee, ee, BR>>, EmptyRank, EmptyRank, EmptyRank,
             EmptyRank, EmptyRank, EmptyRank,
             <<ee, WR, ee, ee, WK, ee, ee, ee>> >>,
          Black, {CastlingRights_to_index(Black, QueenSide),
                  CastlingRights_to_index(Black, KingSide)}, NoSq, 0, 1)

\* 3R3B/8/3R4/1NP1Q3/3p4/1NP5/5B2/3R1K1k w - - 0 1 (movegen.rs test_square_attackers)
RawAttackers ==
    RawOf(<< <<ee, ee, ee, WR, ee, ee, ee, WB>>, EmptyRank,
             <<ee, ee, ee, WR, ee, ee, ee, ee>>, <<ee, WN, WP, ee, WQ, ee, ee, ee>>,
             <<ee, ee, ee, BP, ee, ee, ee, ee>>, <<ee, WN, WP, ee, ee, ee, ee, ee>>,
             <<ee, ee, ee, ee, ee, WB, ee, ee>>, <<ee, ee, ee, WR, ee, WK, ee, BK>> >>,
          White, {}, NoSq, 0, 1)

\* 4k3/8/8/8/8/5n2/8/4K3 w - - 0 1: check by the knight on f3
RawKnightCheck ==
    RawOf(<< <<ee, ee, ee, ee, BK, ee, ee, ee>>, EmptyRank, EmptyRank, EmptyRank,
             EmptyRank, <<ee, ee, ee, ee, ee, BN, ee, ee>>, EmptyRank,
             <<ee, ee, ee, ee, WK, ee, ee, ee>> >>,
          White, {}, NoSq, 0, 1)

GenRaws == {RawEpCheck, RawBlockCheck, RawDoubleCheck, RawKnightCheck, RawCastleThrough, RawCastleBlack,
            RawAttackers, RawBoard_start, RawKiwipete, RawCastlingA, RawCastlingB,
            RawPinnedEnpassant, RawPawns, RawPawnsBlack, RawPromote, RawPromoteCapture}

GenBoards == {Board_try_from(x).board : x \in {y \in GenRaws : Board_try_from(y).err = "Ok"}}

\* -------------------------------------------------- the generator machine
InitGen ==
    /\ pos \in GenBoards
    /\ stack = <<>>
    /\ game = 0
    /\ feature_slice = NoSlice
    /\ comm = NoComm
    /\ stops = NoStops
    /\ last = [op |-> "init", kind |-> KindNull, res |-> "Ok"]
    /\ draft = RawBoard_empty
    /\ edits = 0
    /\ vres = NotValidated
    /\ walk = NoWalk
    /\ text = NoText

\* MoveGen::new(b) followed by one of the generating calls on an empty list
Generated(op, list) ==
    /\ last' = [op |-> op, kind |-> KindNull, res |-> list]
    /\ UNCHANGED <<pos, stack, game, draft, edits, vres, walk, text, comm, stops, feature_slice>>

GenAll == Generated("gen_all", MoveGen_gen_all(pos))
GenCapture == Generated("gen_capture", MoveGen_gen_capture(pos))
GenSimple == Generated("gen_simple", MoveGen_gen_simple(pos))
GenSimpleNoPromote == Generated("gen_simple_no_promote", MoveGen_gen_simple_no_promote(pos))
GenSimplePromote == Generated("gen_simple_promote", MoveGen_gen_simple_promote(pos))

GenOps == {"gen_all", "gen_capture", "gen_simple", "gen_simple_no_promote",
           "gen_simple_promote"}

\* Board::make_move on a move of the list gen_all has filled
PlayGenerated(mv) ==
    /\ game < MaxGame
    /\ last.op = "gen_all"
    /\ mv \in last.res
    /\ LET out == Board_make_move(pos, mv)
       IN /\ pos' = out.board
          /\ game' = IF out.res = "Ok" THEN game + 1 ELSE game
          /\ last' = [op |-> "make_move",
                      kind |-> IF out.res = "Ok" THEN mv.kind ELSE KindNull,
                      res |-> out.res]
    /\ UNCHANGED <<stack, draft, edits, vres, walk, text, comm, stops, feature_slice>>

NextGen ==
    \/ GenAll
    \/ GenCapture
    \/ GenSimple
    \/ GenSimpleNoPromote
    \/ GenSimplePromote
    \/ \E mv \in MoveGen_gen_all(pos) : PlayGenerated(mv)

SpecGen == InitGen /\ [][NextGen]_vars

\* ------------------------------------------------ properties of generation
\* the move is made by the king of the side to move
IsKingMove(board, mv) ==
    Board_get(board, mv.src) = Cell_make(board.r.side, King)

\* the legal moves of pieces other than the king
LegalNonKingMoves(board) == {mv \in LegalMoves(board) : ~IsKingMove(board, mv)}

InSingleCheck(board) == MoveGenCtx_from(board).check = "Single"

\* an en-passant capture that takes the pawn giving check
TakesCheckerEnPassant(board, mv) ==
    /\ mv.kind = KindEnpassant
    /\ board.r.ep_src \in Board_checkers(board)

\* C14 as stated: in single check every legal move of a piece other than the
\* king has its destination in check_mask.
C14_Original ==
    InSingleCheck(pos) =>
        \A mv \in LegalNonKingMoves(pos) : mv.dst \in MoveGenCtx_from(pos).check_mask

\* C14: in single check every legal move of a piece other than the king has
\* its destination in check_mask = between(checker, king) with the checker's
\* square, except an en-passant capture of the checking pawn, whose
\* destination is the square behind that pawn.
C14_LegalInMask ==
    InSingleCheck(pos) =>
        \A mv \in LegalNonKingMoves(pos) :
            \/ mv.dst \in MoveGenCtx_from(pos).check_mask
            \/ TakesCheckerEnPassant(pos, mv)

\* gen_all has listed the legal moves of a position in check by a rook along
\* the first rank, which a knight can block and the king can leave
C14_Witness ==
    /\ last.op = "gen_all"
    /\ LegalMoves(pos) \subseteq last.res
    /\ InSingleCheck(pos)
    /\ Cardinality(MoveGenCtx_from(pos).check_mask) = 3
    /\ \E mv \in LegalNonKingMoves(pos) :
          /\ Board_get(pos, mv.src) = WhiteKnight
          /\ mv.dst \in MoveGenCtx_from(pos).check_mask \ Board_checkers(pos)
    /\ \E mv \in LegalMoves(pos) : IsKingMove(pos, mv)

InDoubleCheck(board) == Cardinality(Board_checkers(board)) >= 2

\* C15: in double check every move a generating call has emitted is a move
\* of the king.
C15_OnlyKingMoves ==
    (last.op \in GenOps /\ InDoubleCheck(pos)) =>
        \A mv \in last.res : IsKingMove(pos, mv)

\* the squares holding a piece of the side not to move that attacks the king
\* of the side to move, read off the mailbox
RefCheckers(board) ==
    LET squares == board.r.squares
        king == CHOOSE k \in Sq : squares[k] = Cell_make(board.r.side, King)
    IN {s \in Sq : /\ Cell_color(squares[s]) = inv(board.r.side)
                   /\ RefAttacks(squares, s, king)}

RefKing(board) == CHOOSE k \in Sq : board.r.squares[k] = Cell_make(board.r.side, King)

\* two squares next to each other, diagonally included
Adjacent(a, z) ==
    /\ a /= z
    /\ abs_diff(Sq_file(a), Sq_file(z)) <= 1
    /\ abs_diff(Sq_rank(a), Sq_rank(z)) <= 1

\* C16: MoveGenCtx has kind None and all 64 squares as check_mask when no
\* piece attacks the king of the side to move; kind Single and the squares
\* between the checker and the king with the checker's square when exactly
\* one does (the checker's square alone for a knight or a checker next to the
\* king); kind Double and an empty check_mask when two or more do.
C16_CtxClassifies ==
    LET ctx == MoveGenCtx_from(pos)
        checkers == RefCheckers(pos)
        n == Cardinality(checkers)
    IN /\ n = 0 => ctx.check = "None" /\ ctx.check_mask = Sq
       /\ n = 1 =>
            LET checker == CHOOSE s \in checkers : TRUE
            IN /\ ctx.check = "Single"
               /\ ctx.check_mask = RefBetween(checker, RefKing(pos)) \cup {checker}
               /\ (Cell_piece(pos.r.squares[checker]) = Knight
                   \/ Adjacent(checker, RefKing(pos))) => ctx.check_mask = {checker}
       /\ n >= 2 => ctx.check = "Double" /\ ctx.check_mask = {}

\* gen_all was called in a position in check by a knight alone
C16_Witness ==
    /\ last.op = "gen_all"
    /\ Cardinality(RefCheckers(pos)) = 1
    /\ MoveGenCtx_from(pos).check_mask = RefCheckers(pos)
    /\ \E s \in RefCheckers(pos) : Cell_piece(pos.r.squares[s]) = Knight
    /\ MoveGenCtx_from(pos).check = "Single"

\* some piece of colour c attacks square s, read off the mailbox
RefAttacked(board, s, c) ==
    \E x \in Sq : /\ Cell_color(board.r.squares[x]) = c
                  /\ RefAttacks(board.r.squares, x, s)

\* the castling move of a colour and a side, and the files it involves
CastlingKind(s) == IF s = KingSide THEN KindCastlingKingside ELSE KindCastlingQueenside
CastlingMove(c, s) ==
    Move_new_unchecked(CastlingKind(s), KingHome(c),
                       Sq_make(IF s = KingSide THEN FileG ELSE FileC, Sq_rank(KingHome(c))))
\* the square the king passes over
CastlingTransit(c, s) ==
    Sq_make(IF s = KingSide THEN FileF ELSE FileD, Sq_rank(KingHome(c)))

\* the conditions of the claim for the side to move to castle on side s
MayCastle(board, s) ==
    LET c == board.r.side
    IN /\ ~RefAttacked(board, KingHome(c), inv(c))
       /\ CastlingRights_to_index(c, s) \in board.r.castling
       /\ \A x \in RefBetween(KingHome(c), RookHome(c, s)) : board.r.squares[x] = CellNone
       /\ ~RefAttacked(board, CastlingTransit(c, s), inv(c))

\* C17: gen_all emits the castling move of the side to move on a side
\* exactly when that side is not in check, holds the right, has every square
\* between king and rook empty and the square the king passes over not
\* attacked, whether or not the king's final square is attacked; gen_all
\* emits no castling move of the other colour; Move::is_semilegal accepts
\* the castling move under the same conditions.
C17_CastlingOffered ==
    last.op = "gen_all" =>
        /\ \A s \in CastlingSides :
              /\ CastlingMove(pos.r.side, s) \in last.res <=> MayCastle(pos, s)
              /\ Move_is_semilegal(CastlingMove(pos.r.side, s), pos) <=> MayCastle(pos, s)
              /\ CastlingMove(inv(pos.r.side), s) \notin last.res
              /\ ~Move_is_semilegal(CastlingMove(inv(pos.r.side), s), pos)
        /\ \A mv \in last.res :
              mv.kind \in {KindCastlingKingside, KindCastlingQueenside} =>
                  \E s \in CastlingSides : mv = CastlingMove(pos.r.side, s)

\* gen_all has emitted king-side castling although g1 is attacked, and not
\* queen-side castling, d1 being attacked
C17_Witness ==
    /\ last.op = "gen_all"
    /\ pos.r.side = White
    /\ CastlingMove(White, KingSide) \in last.res
    /\ RefAttacked(pos, Sq_make(FileG, R1), Black)
    /\ ~Move_is_legal_unchecked(CastlingMove(White, KingSide), pos)
    /\ CastlingRights_has(pos.r.castling, White, QueenSide)
    /\ CastlingMove(White, QueenSide) \notin last.res

\* C18: for every square s and colour c of a validated Board,
\* is_square_attacked is true exactly when square_attackers is a non-empty
\* set, and every square of square_attackers holds a piece of colour c.
C18_AttackedIffAttackers ==
    \A s \in Sq : \A c \in Colors :
        /\ is_square_attacked(pos, s, c) <=> square_attackers(pos, s, c) /= {}
        /\ \A x \in square_attackers(pos, s, c) : Cell_color(pos.r.squares[x]) = c

\* the position of test_square_attackers: d4 is attacked by the seven white
\* pieces on d6, b5, e5, b3, c3, f2 and d1, and by no black piece
C18_Witness ==
    /\ last.op = "gen_all"
    /\ is_square_attacked(pos, Sq_make(FileD, R4), White)
    /\ square_attackers(pos, Sq_make(FileD, R4), White) =
           {Sq_make(FileD, R6), Sq_make(FileB, R5), Sq_make(FileE, R5),
            Sq_make(FileB, R3), Sq_make(FileC, R3), Sq_make(FileF, R2),
            Sq_make(FileD, R1)}
    /\ ~is_square_attacked(pos, Sq_make(FileD, R4), Black)
    /\ square_attackers(pos, Sq_make(FileD, R4), Black) = {}


\* ------------------------------------------- board.rs, core.rs: FEN text
\* A text is the sequence of its bytes, each written as a one-character
\* string; NonAsciiByte stands for a byte of 128 or more.
NonAsciiByte == "<80>"
Digits == <<"0", "1", "2", "3", "4", "5", "6", "7", "8", "9">>
UpperChars == <<"A", "B", "C", "D", "E", "F", "G", "H", "I", "J", "K", "L", "M",
                "N", "O", "P", "Q", "R", "S", "T", "U", "V", "W", "X", "Y", "Z">>
LowerChars == <<"a", "b", "c", "d", "e", "f", "g", "h", "i", "j", "k", "l", "m",
                "n", "o", "p", "q", "r", "s", "t", "u", "v", "w", "x", "y", "z">>
IndexIn(seq, ch) == CHOOSE i \in 1..Len(seq) : seq[i] = ch
IsIn(seq, ch) == \E i \in 1..Len(seq) : seq[i] = ch

\* char::is_ascii_uppercase, char::to_ascii_lowercase, str::is_ascii
is_ascii_uppercase(ch) == IsIn(UpperChars, ch)
to_ascii_lowercase(ch) ==
    IF is_ascii_uppercase(ch) THEN LowerChars[IndexIn(UpperChars, ch)] ELSE ch
\* faulty variant: every text passes for ASCII
is_ascii_any(s) == TRUE
is_ascii(s) == \A i \in 1..Len(s) : s[i] /= NonAsciiByte

\* str::split(sep): the pieces between the separators, empty pieces included
RECURSIVE split(_, _)
split(s, sep) ==
    IF \A i \in 1..Len(s) : s[i] /= sep THEN <<s>>
    ELSE LET k == CHOOSE i \in 1..Len(s) : s[i] = sep /\ \A j \in 1..(i - 1) : s[j] /= sep
         IN <<SubSeq(s, 1, k - 1)>> \o split(SubSeq(s, k + 1, Len(s)), sep)

\* the error of a parser, with the detail the variant carries
Err(name, detail) == [err |-> name, detail |-> detail]
\* an assertion that fails or an index out of bounds
Panic == [err |-> "panic", detail |-> "panic"]

\* File::from_char, Rank::from_char and their as_char; None is 8
NoFile == 8
File_from_char(ch) ==
    IF IsIn(SubSeq(LowerChars, 1, 8), ch) THEN IndexIn(LowerChars, ch) - 1 ELSE NoFile
Rank_from_char(ch) ==
    IF IsIn(SubSeq(Digits, 2, 9), ch) THEN 8 - (IndexIn(Digits, ch) - 1) ELSE NoFile
File_as_char(file) == LowerChars[file + 1]
Rank_as_char(rank) == Digits[(8 - rank) + 1]

\* Sq::from_str and Display for Sq
Sq_from_str(s) ==
    IF Len(s) /= 2 THEN Err("BadLength", "")
    ELSE IF File_from_char(s[1]) = NoFile THEN Err("BadFileChar", s[1])
    ELSE IF Rank_from_char(s[2]) = NoFile THEN Err("BadRankChar", s[2])
    ELSE [err |-> "Ok", sq |-> Sq_make(File_from_char(s[1]), Rank_from_char(s[2]))]
Sq_to_string(sq) == <<File_as_char(Sq_file(sq)), Rank_as_char(Sq_rank(sq))>>

\* Color::from_str and Color::as_char
Color_as_char(c) == IF c = White THEN "w" ELSE "b"
Color_from_str(s) ==
    IF Len(s) /= 1 THEN Err("BadLength", "")
    ELSE IF s[1] = "w" THEN [err |-> "Ok", color |-> White]
    ELSE IF s[1] = "b" THEN [err |-> "Ok", color |-> Black]
    ELSE Err("BadChar", s[1])

\* Cell::as_char and Cell::from_char; None is CellCount
CellChars == <<".", "P", "K", "N", "B", "R", "Q", "p", "k", "n", "b", "r", "q">>
Cell_as_char(cell) == CellChars[cell + 1]
NoCell == CellCount
Cell_from_char(ch) ==
    IF ch = "." THEN CellNone
    ELSE LET color == IF is_ascii_uppercase(ch) THEN White ELSE Black
             low == to_ascii_lowercase(ch)
             piece == CASE low = "p" -> Pawn
                        [] low = "k" -> King
                        [] low = "n" -> Knight
                        [] low = "b" -> Bishop
                        [] low = "r" -> Rook
                        [] low = "q" -> Queen
                        [] OTHER -> NoPiece
         IN IF piece = NoPiece THEN NoCell ELSE Cell_make(color, piece)

\* CastlingRights::from_str and Display for CastlingRights
CastlingChars == <<"Q", "K", "q", "k">>
RECURSIVE CastlingRights_parse(_, _, _)
CastlingRights_parse(s, i, res) ==
    IF i > Len(s) THEN [err |-> "Ok", castling |-> res]
    ELSE IF ~IsIn(CastlingChars, s[i]) THEN Err("BadChar", s[i])
    ELSE LET idx == IndexIn(CastlingChars, s[i]) - 1
             color == idx \div 2
             side == idx % 2
         IN IF CastlingRights_has(res, color, side) THEN Err("DuplicateChar", s[i])
            ELSE CastlingRights_parse(s, i + 1,
                                      res \cup {CastlingRights_to_index(color, side)})
CastlingRights_from_str(s) ==
    IF s = <<"-">> THEN [err |-> "Ok", castling |-> CastlingRights_EMPTY]
    ELSE IF s = <<>> THEN Err("EmptyString", "")
    ELSE CastlingRights_parse(s, 1, CastlingRights_EMPTY)
CastlingRights_to_string(cr) ==
    IF cr = CastlingRights_EMPTY THEN <<"-">>
    ELSE (IF CastlingRights_has(cr, White, KingSide) THEN <<"K">> ELSE <<>>)
         \o (IF CastlingRights_has(cr, White, QueenSide) THEN <<"Q">> ELSE <<>>)
         \o (IF CastlingRights_has(cr, Black, KingSide) THEN <<"k">> ELSE <<>>)
         \o (IF CastlingRights_has(cr, Black, QueenSide) THEN <<"q">> ELSE <<>>)

\* u16::from_str: an optional '+', then at least one decimal digit, the value
\* at most 65535; and Display for u16: the decimal digits, no leading zero
RECURSIVE u16_digits(_, _, _)
u16_digits(s, i, acc) ==
    IF i > Len(s) THEN [err |-> "Ok", n |-> acc]
    ELSE IF ~IsIn(Digits, s[i]) THEN Err("InvalidDigit", "")
    ELSE IF acc * 10 + (IndexIn(Digits, s[i]) - 1) >= U16 THEN Err("PosOverflow", "")
    ELSE u16_digits(s, i + 1, acc * 10 + (IndexIn(Digits, s[i]) - 1))
u16_from_str(s) ==
    IF s = <<>> THEN Err("Empty", "")
    ELSE IF s = <<"+">> \/ s = <<"-">> THEN Err("InvalidDigit", "")
    ELSE IF s[1] = "+" THEN u16_digits(s, 2, 0)
    ELSE u16_digits(s, 1, 0)
RECURSIVE u16_to_string(_)
u16_to_string(n) ==
    IF n < 10 THEN <<Digits[n + 1]>>
    ELSE u16_to_string(n \div 10) \o <<Digits[(n % 10) + 1]>>


\* parse_squares: the loop over the bytes of the board field with the locals
\* file, rank, pos (here idx) and squares, then the checks after it; an index
\* past the array and a failed assert_eq! are panics
\* the body of the loop for one byte: st is the loop's state (err = "Go") or
\* the result the loop has already returned with
parse_squares_byte(st, ch) ==
    IF st.err /= "Go" THEN st
    ELSE IF IsIn(SubSeq(Digits, 2, 9), ch)
    THEN LET add == IndexIn(Digits, ch) - 1
         IN IF st.file + add > 8 THEN Err("RankOverflow", st.rank)
            ELSE [st EXCEPT !.file = @ + add, !.idx = @ + add]
    ELSE IF ch = "/"
    THEN IF st.file < 8 THEN Err("RankUnderflow", st.rank)
         ELSE IF st.rank + 1 >= 8 THEN Err("Overflow", "")
         ELSE [st EXCEPT !.file = 0, !.rank = @ + 1]
    ELSE IF st.file >= 8 THEN Err("RankOverflow", st.rank)
    ELSE IF st.idx >= 64 THEN Panic
    ELSE IF Cell_from_char(ch) = NoCell THEN Err("UnexpectedChar", ch)
    ELSE [st EXCEPT !.file = @ + 1, !.idx = @ + 1, !.squares[st.idx] = Cell_from_char(ch)]

\* the loop over the bytes lo..hi of s in order, from the state st
RECURSIVE parse_squares_loop(_, _, _, _)
parse_squares_loop(s, lo, hi, st) ==
    IF lo > hi THEN st
    ELSE IF lo = hi THEN parse_squares_byte(st, s[lo])
    ELSE LET half == (lo + hi) \div 2
         IN CHOOSE out \in {parse_squares_loop(s, half + 1, hi, left) :
                                left \in {parse_squares_loop(s, lo, half, st)}} : TRUE

parse_squares(s) ==
    LET st == parse_squares_loop(s, 1, Len(s),
                                 [err |-> "Go", file |-> 0, rank |-> 0, idx |-> 0,
                                  squares |-> [x \in Sq |-> CellNone]])
    IN IF st.err /= "Go" THEN st
       ELSE IF st.file < 8 THEN Err("RankUnderflow", st.rank)
       ELSE IF st.rank < 7 THEN Err("Underflow", "")
       ELSE IF st.file = 8 /\ st.rank = 7 /\ st.idx = 64
            THEN [err |-> "Ok", squares |-> st.squares]
       ELSE Panic

\* format_squares: the ranks in order, "/" before every rank but the first,
\* each run of empty cells written as its length
RECURSIVE format_rank(_, _, _, _)
format_rank(squares, rank, file, empty) ==
    LET run == IF empty /= 0 THEN <<Digits[empty + 1]>> ELSE <<>>
    IN IF file = 8 THEN run
       ELSE IF squares[Sq_make(file, rank)] = CellNone
       THEN format_rank(squares, rank, file + 1, empty + 1)
       ELSE run \o <<Cell_as_char(squares[Sq_make(file, rank)])>>
                \o format_rank(squares, rank, file + 1, 0)
RECURSIVE format_squares_from(_, _)
format_squares_from(squares, rank) ==
    IF rank = 8 THEN <<>>
    ELSE (IF rank /= 0 THEN <<"/">> ELSE <<>>)
         \o format_rank(squares, rank, 0, 0) \o format_squares_from(squares, rank + 1)
format_squares(squares) == format_squares_from(squares, 0)

\* RawBoard::ep_dst: the square behind the double-moved pawn
\* faulty variant: the pawn's own square is written
RawBoard_ep_dst_src(raw) == raw.ep_src
RawBoard_ep_dst(raw) ==
    IF raw.ep_src = NoSq THEN NoSq
    ELSE Sq_make(Sq_file(raw.ep_src), ep_dst_rank(raw.side))

\* parse_ep_src: "-" or the capture destination, kept as the pawn's square
parse_ep_src(s, side) ==
    IF s = <<"-">> THEN [err |-> "Ok", ep_src |-> NoSq]
    ELSE LET ep == Sq_from_str(s)
         IN IF ep.err /= "Ok" THEN Err("Enpassant", ep)
            ELSE IF Sq_rank(ep.sq) /= ep_dst_rank(side)
            THEN Err("BadEnpassantRank", Sq_rank(ep.sq))
            ELSE [err |-> "Ok", ep_src |-> Sq_make(Sq_file(ep.sq), ep_src_rank(side))]

\* RawBoard::from_str: the fields are the pieces of split(' '), read in order;
\* the first failure is returned
RawBoard_from_str(s) ==
    IF ~is_ascii(s) THEN Err("NonAscii", "")
    ELSE LET iter == split(s, " ")
             n == Len(iter)
             squares == parse_squares(iter[1])
             side == Color_from_str(iter[2])
             castling == CastlingRights_from_str(iter[3])
             ep_src == parse_ep_src(iter[4], side.color)
             move_counter == IF n >= 5 THEN u16_from_str(iter[5]) ELSE [err |-> "Ok", n |-> 0]
             move_number == IF n >= 6 THEN u16_from_str(iter[6]) ELSE [err |-> "Ok", n |-> 1]
         IN IF squares.err = "panic" THEN Panic
            ELSE IF squares.err /= "Ok" THEN Err("Board", squares)
            ELSE IF n < 2 THEN Err("NoMoveSide", "")
            ELSE IF side.err /= "Ok" THEN Err("MoveSide", side)
            ELSE IF n < 3 THEN Err("NoCastling", "")
            ELSE IF castling.err /= "Ok" THEN Err("Castling", castling)
            ELSE IF n < 4 THEN Err("NoEnpassant", "")
            ELSE IF ep_src.err /= "Ok" THEN ep_src
            ELSE IF move_counter.err /= "Ok" THEN Err("MoveCounter", move_counter)
            ELSE IF move_number.err /= "Ok" THEN Err("MoveNumber", move_number)
            ELSE IF n >= 7 THEN Err("ExtraData", "")
            ELSE [err |-> "Ok",
                  raw |-> [squares |-> squares.squares, side |-> side.color,
                           castling |-> castling.castling, ep_src |-> ep_src.ep_src,
                           move_counter |-> move_counter.n, move_number |-> move_number.n]]

\* Display for RawBoard
RawBoard_to_string(raw) ==
    format_squares(raw.squares)
    \o <<" ", Color_as_char(raw.side), " ">> \o CastlingRights_to_string(raw.castling)
    \o <<" ">> \o (IF RawBoard_ep_dst(raw) /= NoSq THEN Sq_to_string(RawBoard_ep_dst(raw))
                   ELSE <<"-">>)
    \o <<" ">> \o u16_to_string(raw.move_counter)
    \o <<" ">> \o u16_to_string(raw.move_number)


\* --------------------------------------------- the FEN machine: the texts
\* the texts joined with sep between them
RECURSIVE Join(_, _)
Join(parts, sep) ==
    IF parts = <<>> THEN <<>>
    ELSE IF Len(parts) = 1 THEN parts[1]
    ELSE parts[1] \o <<sep>> \o Join(Tail(parts), sep)
BoardText(ranks) == Join(ranks, "/")

\* board fields the parser accepts: the start position, the positions of
\* test_midgame and test_fixes_on_validate, the empty board, and two ways of
\* writing empty cells that Display never produces
StartRanks ==
    << <<"r", "n", "b", "q", "k", "b", "n", "r">>,
       <<"p", "p", "p", "p", "p", "p", "p", "p">>,
       <<"8">>, <<"8">>, <<"8">>, <<"8">>,
       <<"P", "P", "P", "P", "P", "P", "P", "P">>,
       <<"R", "N", "B", "Q", "K", "B", "N", "R">> >>
MidgameRanks ==
    << <<"1", "r", "q", "1", "r", "1", "k", "1">>,
       <<"1", "p", "3", "p", "p", "p">>,
       <<"p", "B", "3", "n", "2">>,
       <<"3", "p", "p", "P", "2">>,
       <<"P", "b", "b", "1", "P", "3">>,
       <<"1", "P", "N", "2", "B", "2">>,
       <<"2", "P", "2", "Q", "P", "P">>,
       <<"R", "1", "R", "4", "K">> >>
FixesRanks ==
    << <<"r", "1", "b", "q", "1", "b", "1", "r">>,
       <<"p", "p", "p", "p", "k", "p", "p", "p">>,
       <<"2", "n", "2", "n", "2">>,
       <<"4", "p", "3">>,
       <<"2", "B", "1", "P", "3">>,
       <<"5", "N", "2">>,
       <<"P", "P", "P", "P", "1", "P", "P", "P">>,
       <<"R", "N", "B", "Q", "K", "1", "R", "1">> >>
EmptyRanks == [i \in 1..8 |-> <<"8">>]
CanonicalBoards ==
    {BoardText(StartRanks), BoardText(MidgameRanks), BoardText(FixesRanks),
     BoardText(EmptyRanks)}
LooseBoards ==
    {BoardText([EmptyRanks EXCEPT ![1] = <<".", ".", ".", "k", ".", ".", ".", ".">>]),
     BoardText([EmptyRanks EXCEPT ![4] = <<"4", "4">>]),
     BoardText([EmptyRanks EXCEPT ![8] = <<"1", "K", "3", "2", "1">>])}

\* board fields the parser rejects: seven ranks, nine ranks, a trailing
\* "/", short and long ranks, the empty field, and bytes that are no cell
BadBoards ==
    {BoardText(SubSeq(EmptyRanks, 1, 7)),
     BoardText(EmptyRanks \o << <<"8">> >>),
     BoardText(EmptyRanks) \o <<"/">>,
     BoardText(SubSeq(StartRanks, 1, 3)),
     BoardText([EmptyRanks EXCEPT ![1] = <<"7">>]),
     BoardText([EmptyRanks EXCEPT ![8] = <<"3", "k", "3">>]),
     BoardText([EmptyRanks EXCEPT ![3] = <<"p", "8">>]),
     BoardText([EmptyRanks EXCEPT ![3] = <<"8", "p">>]),
     BoardText([EmptyRanks EXCEPT ![8] = <<"4", "5">>]),
     BoardText([StartRanks EXCEPT ![2] = <<"p", "p", "p", "p", "p", "p", "p", "p", "p">>]),
     BoardText([EmptyRanks EXCEPT ![5] = <<>>]),
     <<>>,
     BoardText([EmptyRanks EXCEPT ![2] = <<"x", "7">>]),
     BoardText([EmptyRanks EXCEPT ![2] = <<"9">>]),
     BoardText([EmptyRanks EXCEPT ![2] = <<"0", "8">>]),
     BoardText(SubSeq(EmptyRanks, 1, 2)) \o <<"x">>}
BoardFields == CanonicalBoards \cup LooseBoards \cup BadBoards

SideFields == {<<"w">>, <<"b">>, <<"x">>, <<"W">>, <<>>, <<"w", "b">>}
CastlingFields ==
    {<<"-">>, <<"K", "Q", "k", "q">>, <<"K", "q">>, <<"Q">>, <<"q", "K">>,
     <<"K", "K">>, <<"K", "x">>, <<"-", "-">>, <<>>}
EnpassantFields ==
    {<<"-">>, <<"e", "6">>, <<"e", "3">>, <<"c", "6">>, <<"a", "3">>, <<"h", "6">>,
     <<"e", "5">>, <<"e", "4">>, <<"e">>, <<"i", "6">>, <<"e", "9">>, <<"E", "6">>,
     <<"e", "6", "6">>, <<>>}
NumberFields ==
    {<<"0">>, <<"1">>, <<"6">>, <<"1", "0">>, <<"2", "1">>, <<"6", "5", "5", "3", "5">>,
     <<"6", "5", "5", "3", "6">>, <<"+", "5">>, <<"0", "0", "7">>, <<"-", "1">>,
     <<"x">>, <<"+">>, <<>>}

\* the sequences of fields given to the parser: from a complete sequence one
\* field at a time is varied, the sequence is cut after any field, and a
\* seventh field is added
BaseFields == <<BoardText(StartRanks), <<"w">>, <<"K", "Q", "k", "q">>, <<"-">>, <<"0">>, <<"1">>>>
FieldLists ==
    {SubSeq([BaseFields EXCEPT ![1] = b], 1, k) : b \in BoardFields, k \in 1..6}
    \cup {SubSeq([BaseFields EXCEPT ![1] = b, ![2] = s], 1, k) :
             b \in {BoardText(StartRanks), BoardText(EmptyRanks)}, s \in SideFields, k \in 2..6}
    \cup {SubSeq([BaseFields EXCEPT ![2] = s, ![3] = c], 1, k) :
             s \in {<<"w">>, <<"b">>}, c \in CastlingFields, k \in 3..6}
    \cup {SubSeq([BaseFields EXCEPT ![1] = b, ![2] = s, ![4] = e], 1, k) :
             b \in {BoardText(StartRanks), BoardText(FixesRanks)},
             s \in {<<"w">>, <<"b">>}, e \in EnpassantFields, k \in 4..6}
    \cup {SubSeq([BaseFields EXCEPT ![2] = s, ![5] = x, ![6] = y], 1, k) :
             s \in {<<"w">>, <<"b">>}, x \in NumberFields, y \in NumberFields, k \in 5..6}
    \cup {[BaseFields EXCEPT ![1] = b] \o <<x>> :
             b \in BoardFields, x \in {<<"1">>, <<>>, <<"x">>}}
    \cup {[BaseFields EXCEPT ![1] = b] \o <<<<"1">>, <<"2">>>> : b \in CanonicalBoards}
    \cup {<<BoardText(MidgameRanks), <<"w">>, <<"-">>, <<"-">>, <<"1">>, <<"2", "1">>>>,
          <<BoardText(FixesRanks), <<"w">>, <<"K", "Q", "k", "q">>, <<"c", "6">>, <<"6">>, <<"5">>>>}

\* texts with a byte that is not ASCII: in a field, between fields, alone
NonAsciiTexts ==
    {<<NonAsciiByte>>,
     Join(BaseFields, " ") \o <<NonAsciiByte>>,
     <<NonAsciiByte>> \o Join(BaseFields, " "),
     BoardText(EmptyRanks) \o <<" ", NonAsciiByte>>,
     BoardText(SubSeq(EmptyRanks, 1, 3)) \o <<NonAsciiByte>>,
     Join([BaseFields EXCEPT ![3] = <<"K", NonAsciiByte>>], " "),
     Join(BaseFields \o <<<<NonAsciiByte>>>>, " ")}

FenTexts == {Join(fields, " ") : fields \in FieldLists} \cup NonAsciiTexts


\* ------------------------------------------------------- the FEN machine
\* either a text is given, or a validated Board whose RawBoard is written
InitFen ==
    /\ \/ /\ text \in FenTexts
          /\ pos = Board_try_from(RawBoard_start).board
          /\ last = [op |-> "text", kind |-> KindNull, res |-> "Ok"]
       \/ /\ text = NoText
          /\ pos \in GenBoards
          /\ last = [op |-> "init", kind |-> KindNull, res |-> "Ok"]
    /\ stack = <<>>
    /\ game = 0
    /\ feature_slice = NoSlice
    /\ comm = NoComm
    /\ stops = NoStops
    /\ draft = RawBoard_empty
    /\ edits = 0
    /\ vres = NotValidated
    /\ walk = NoWalk

\* Board::make_move of a legal move on the given Board
FenMakeMove(mv) ==
    /\ last.op = "init"
    /\ game < MaxGame
    /\ LET out == Board_make_move(pos, mv)
       IN /\ out.res = "Ok"
          /\ pos' = out.board
          /\ game' = game + 1
          /\ last' = [op |-> "make_move", kind |-> mv.kind, res |-> "Ok"]
    /\ UNCHANGED <<stack, draft, edits, vres, walk, text, comm, stops, feature_slice>>

\* Board::raw: the RawBoard of the validated Board
FenRaw ==
    /\ last.op \in {"init", "make_move"}
    /\ draft' = pos.r
    /\ last' = [op |-> "raw", kind |-> KindNull, res |-> "Ok"]
    /\ UNCHANGED <<pos, stack, game, edits, vres, walk, text, comm, stops, feature_slice>>

\* RawBoard::from_str on the text
FenFromStr ==
    /\ last.op \in {"text", "to_string"}
    /\ \E out \in {RawBoard_from_str(text)} :
          /\ vres' = out
          /\ draft' = IF out.err = "Ok" THEN out.raw ELSE draft
          /\ last' = [op |-> "from_str", kind |-> KindNull, res |-> out.err]
    /\ UNCHANGED <<pos, stack, game, edits, walk, text, comm, stops, feature_slice>>

\* RawBoard::to_string on the RawBoard that was parsed or taken from a Board
FenToString ==
    /\ \/ last.op = "raw"
       \/ last.op = "from_str" /\ last.res = "Ok"
    /\ text' = RawBoard_to_string(draft)
    /\ last' = [op |-> "to_string", kind |-> KindNull, res |-> "Ok"]
    /\ UNCHANGED <<pos, stack, game, draft, edits, vres, walk, comm, stops, feature_slice>>

NextFen ==
    \/ \E mv \in LegalMoves(pos) : FenMakeMove(mv)
    \/ FenRaw
    \/ FenFromStr
    \/ FenToString

SpecFen == InitFen /\ [][NextFen]_vars


\* ------------------------------------------------- canonical FEN text
PieceLetters == {"P", "K", "N", "B", "R", "Q", "p", "k", "n", "b", "r", "q"}
RankDigits == {"1", "2", "3", "4", "5", "6", "7", "8"}
\* the number a digit stands for, and the cells a byte of a rank stands for
DigitOf(ch) == CHOOSE d \in 0..9 : Digits[d + 1] = ch
RECURSIVE RankWidth(_)
RankWidth(part) ==
    IF part = <<>> THEN 0
    ELSE (IF Head(part) \in RankDigits THEN DigitOf(Head(part)) ELSE 1) + RankWidth(Tail(part))
\* the ranks of a board field: what stands between the "/"
RankParts(field) == split(field, "/")
\* a board field of letters, digits and "." only
PlainBoard(field) ==
    \A i \in 1..Len(field) : field[i] \in PieceLetters \cup RankDigits \cup {".", "/"}
\* eight ranks of eight cells each
ShapedBoard(field) ==
    /\ Len(RankParts(field)) = 8
    /\ \A i \in 1..8 : RankWidth(RankParts(field)[i]) = 8
\* as Display writes it: no ".", no digit after a digit
CanonicalBoard(field) ==
    /\ PlainBoard(field)
    /\ ShapedBoard(field)
    /\ \A i \in 1..Len(field) : field[i] /= "."
    /\ \A i \in 1..(Len(field) - 1) : ~(field[i] \in RankDigits /\ field[i + 1] \in RankDigits)
CanonicalCastling ==
    {<<"-">>} \cup {SelectSeq(<<"K", "Q", "k", "q">>, LAMBDA ch : ch \in held) :
                       held \in (SUBSET {"K", "Q", "k", "q"}) \ {{}}}
CanonicalEnpassant(field, side) ==
    \/ field = <<"-">>
    \/ /\ Len(field) = 2
       /\ field[1] \in {"a", "b", "c", "d", "e", "f", "g", "h"}
       /\ field[2] = IF side = <<"w">> THEN "6" ELSE "3"
RECURSIVE DecimalValue(_)
DecimalValue(field) ==
    IF field = <<>> THEN 0
    ELSE DecimalValue(SubSeq(field, 1, Len(field) - 1)) * 10 + DigitOf(field[Len(field)])
CanonicalNumber(field) ==
    /\ field /= <<>>
    /\ Len(field) <= 5
    /\ \A i \in 1..Len(field) : IsIn(Digits, field[i])
    /\ Len(field) > 1 => field[1] /= "0"
    /\ DecimalValue(field) < U16
\* six fields, one space between them, each as Display writes it
CanonicalFen(s) ==
    LET fields == split(s, " ")
    IN /\ is_ascii(s)
       /\ Len(fields) = 6
       /\ CanonicalBoard(fields[1])
       /\ fields[2] \in {<<"w">>, <<"b">>}
       /\ fields[3] \in CanonicalCastling
       /\ CanonicalEnpassant(fields[4], fields[2])
       /\ CanonicalNumber(fields[5])
       /\ CanonicalNumber(fields[6])

\* the en-passant field of a text and the en-passant square of a RawBoard
\* name the same pawn: "-" for none, else the pawn's file with rank 6 in
\* text and rank 5 in state when White is to move, 3 and 4 when Black is
EnpassantAgrees(s, raw) ==
    LET field == split(s, " ")[4]
    IN IF raw.ep_src = NoSq THEN field = <<"-">>
       ELSE /\ field = <<File_as_char(Sq_file(raw.ep_src)),
                         IF raw.side = White THEN "6" ELSE "3">>
            /\ Sq_rank(raw.ep_src) = IF raw.side = White THEN R5 ELSE R4

\* C19: a RawBoard that a parse returned or that was taken from a validated
\* Board, written as text and parsed, is returned unchanged; a canonical FEN
\* text, parsed and written, is the same text; in both directions the
\* en-passant field of the text is the capture destination of the pawn whose
\* square the state holds (same file; ranks 6 and 5 with White to move, 3
\* and 4 with Black).
C19_FenRoundTrip ==
    [][/\ (last.op = "to_string" /\ last'.op = "from_str") =>
              /\ vres'.err = "Ok"
              /\ vres'.raw = draft
       /\ (last.op = "from_str" /\ last'.op = "to_string" /\ CanonicalFen(text)) =>
              text' = text
       /\ (last'.op = "from_str" /\ vres'.err = "Ok") => EnpassantAgrees(text', draft')
       /\ last'.op = "to_string" => EnpassantAgrees(text', draft')
       /\ (last.op = "text" /\ last'.op = "from_str" /\ CanonicalFen(text)) =>
              vres'.err = "Ok"]_vars

\* the text of test_fixes_on_validate was parsed and written again: c6 in the
\* text, the pawn's square c5 in the state
C19_Witness ==
    /\ last.op = "to_string"
    /\ vres.err = "Ok"
    /\ CanonicalFen(text)
    /\ split(text, " ")[4] = <<"c", "6">>
    /\ draft.side = White
    /\ draft.ep_src = Sq_make(FileC, R5)
    /\ RawBoard_from_str(text).raw = draft

\* a Board after a double pawn move by White was written: the field is on
\* rank 3, the state on rank 4
C19_WitnessBoard ==
    /\ last.op = "to_string"
    /\ vres = NotValidated
    /\ draft = pos.r
    /\ pos.r.side = Black
    /\ pos.r.ep_src /= NoSq


\* ------------------------------------------------ fields the parser takes
ValidCastling(field) ==
    \/ field = <<"-">>
    \/ /\ field /= <<>>
       /\ \A i \in 1..Len(field) : field[i] \in {"K", "Q", "k", "q"}
       /\ \A i, j \in 1..Len(field) : field[i] = field[j] => i = j
ValidNumber(field) ==
    LET digits == IF field /= <<>> /\ field[1] = "+" THEN Tail(field) ELSE field
    IN /\ digits /= <<>>
       /\ \A i \in 1..Len(digits) : IsIn(Digits, digits[i])
       /\ DecimalValue(digits) < U16
NumberOf(field) ==
    DecimalValue(IF field[1] = "+" THEN Tail(field) ELSE field)
\* the first k fields are ones the parser takes
ValidUpTo(fields, k) ==
    /\ Len(fields) >= k
    /\ k >= 1 => PlainBoard(fields[1]) /\ ShapedBoard(fields[1])
    /\ k >= 2 => fields[2] \in {<<"w">>, <<"b">>}
    /\ k >= 3 => ValidCastling(fields[3])
    /\ k >= 4 => CanonicalEnpassant(fields[4], fields[2])
    /\ k >= 5 => ValidNumber(fields[5])
    /\ k >= 6 => ValidNumber(fields[6])

\* the error of a board field of letters, digits and "." that has not eight
\* ranks of eight cells: the first rank of a wrong width decides, else the
\* number of ranks
ShapeError(field) ==
    LET parts == RankParts(field)
        m == IF Len(parts) < 8 THEN Len(parts) ELSE 8
        wrong == {i \in 1..m : RankWidth(parts[i]) /= 8}
        first == CHOOSE i \in wrong : \A j \in wrong : i <= j
    IN IF wrong /= {}
       THEN Err(IF RankWidth(parts[first]) > 8 THEN "RankOverflow" ELSE "RankUnderflow",
                first - 1)
       ELSE Err(IF Len(parts) > 8 THEN "Overflow" ELSE "Underflow", "")

\* C20: RawBoard::from_str never panics (the assertions file == 8, rank == 7
\* and pos == 64 hold when reached); a text with a byte that is not ASCII
\* gives NonAscii; a board field that has not eight ranks of eight cells
\* gives Overflow, Underflow, RankOverflow or RankUnderflow; with the fields
\* before it well formed, a text that ends after the board gives NoMoveSide,
\* after the side NoCastling, after the castling rights NoEnpassant; four
\* fields give a RawBoard with halfmove clock 0 and fullmove number 1, five
\* fields one with fullmove number 1; a seventh field gives ExtraData.
C20_FromStrStrict ==
    last.op = "from_str" =>
        LET fields == split(text, " ")
            n == Len(fields)
        IN /\ vres.err /= "panic"
           /\ (\E i \in 1..Len(text) : text[i] = NonAsciiByte) <=> vres.err = "NonAscii"
           /\ (\A i \in 1..Len(text) : text[i] /= NonAsciiByte) =>
                 /\ (PlainBoard(fields[1]) /\ ~ShapedBoard(fields[1])) =>
                        /\ vres.err = "Board"
                        /\ vres.detail = ShapeError(fields[1])
                        /\ vres.detail.err \in {"Overflow", "Underflow",
                                                "RankOverflow", "RankUnderflow"}
                 /\ (n = 1 /\ ValidUpTo(fields, 1)) => vres.err = "NoMoveSide"
                 /\ (n = 2 /\ ValidUpTo(fields, 2)) => vres.err = "NoCastling"
                 /\ (n = 3 /\ ValidUpTo(fields, 3)) => vres.err = "NoEnpassant"
                 /\ (n = 4 /\ ValidUpTo(fields, 4)) =>
                        /\ vres.err = "Ok"
                        /\ vres.raw.move_counter = 0
                        /\ vres.raw.move_number = 1
                 /\ (n = 5 /\ ValidUpTo(fields, 5)) =>
                        /\ vres.err = "Ok"
                        /\ vres.raw.move_counter = NumberOf(fields[5])
                        /\ vres.raw.move_number = 1
                 /\ (n = 6 /\ ValidUpTo(fields, 6)) =>
                        /\ vres.err = "Ok"
                        /\ vres.raw.move_counter = NumberOf(fields[5])
                        /\ vres.raw.move_number = NumberOf(fields[6])
                 /\ (n >= 7 /\ ValidUpTo(fields, 6)) => vres.err = "ExtraData"
                 /\ vres.err = "Ok" => ValidUpTo(fields, n) /\ n \in 4..6

\* the fourth text of test_incomplete was parsed: the start position with no
\* counters, read with halfmove clock 0 and fullmove number 1
C20_Witness ==
    /\ last.op = "from_str"
    /\ text = Join(SubSeq(BaseFields, 1, 4), " ")
    /\ vres.err = "Ok"
    /\ vres.raw = RawBoard_start


\* --------------------------------------------- moves.rs: UCI move text
\* The bytes of the UTF-8 encodings of "e" with acute (2 bytes), the euro
\* sign (3 bytes) and an emoticon (4 bytes); the bytes after the first of a
\* character are continuation bytes.
ContBytes == {"<A9>", "<82>", "<AC>", "<9F>", "<98>", "<80>"}
CharAcute == <<"<C3>", "<A9>">>
CharEuro == <<"<E2>", "<82>", "<AC>">>
CharSmile == <<"<F0>", "<9F>", "<98>", "<80>">>

\* str::is_char_boundary(i): the start, the end, or a byte that begins a
\* character
is_char_boundary(s, i) ==
    \/ i = 0
    \/ i = Len(s)
    \/ i < Len(s) /\ s[i + 1] \notin ContBytes

\* &s[a..b]: the bytes from a up to b; a panic unless both ends are character
\* boundaries
str_slice(s, a, z) ==
    IF a <= z /\ is_char_boundary(s, a) /\ is_char_boundary(s, z)
    THEN [err |-> "Ok", s |-> SubSeq(s, a + 1, z)]
    ELSE Panic

\* UciMove::from_str
UciMove_from_str(s) ==
    IF s = <<"0", "0", "0", "0">> THEN [err |-> "Ok", null |-> TRUE]
    ELSE IF Len(s) \notin {4, 5} THEN Err("BadLength", "")
    ELSE LET s02 == str_slice(s, 0, 2)
             s24 == str_slice(s, 2, 4)
             src == Sq_from_str(s02.s)
             dst == Sq_from_str(s24.s)
             promote == IF Len(s) = 5
                        THEN CASE s[5] = "n" -> Knight
                               [] s[5] = "b" -> Bishop
                               [] s[5] = "r" -> Rook
                               [] s[5] = "q" -> Queen
                               [] OTHER -> King
                        ELSE NoPiece
         IN IF s02 = Panic THEN Panic
            ELSE IF src.err /= "Ok" THEN Err("BadSrc", src)
            ELSE IF s24 = Panic THEN Panic
            ELSE IF dst.err /= "Ok" THEN Err("BadDst", dst)
            ELSE IF promote = King THEN Err("BadPromote", s[5])
            ELSE [err |-> "Ok", null |-> FALSE, src |-> src.sq, dst |-> dst.sq,
                  promote |-> promote]

\* Move::from_uci: UciMove::from_str, then into_move on the Board
Move_from_uci(s, b) ==
    LET u == UciMove_from_str(s)
    IN IF u.err /= "Ok" THEN u
       ELSE IF u.null THEN [err |-> "Ok", mv |-> Move_NULL]
       ELSE LET m == UciMove_into_move(u.src, u.dst, u.promote, b)
            IN IF m.err /= "Ok" THEN Err("Validate", m.err) ELSE m

\* Move::from_uci_legal: from_uci, then Move::validate
Move_from_uci_legal(s, b) ==
    LET m == Move_from_uci(s, b)
    IN IF m.err /= "Ok" THEN m
       ELSE IF Move_validate(m.mv, b) /= "Ok" THEN Err("Validate", Move_validate(m.mv, b))
       ELSE m

\* faulty variant: the promotion letter is not written
Move_to_string_no_promote(mv) ==
    IF mv.kind = KindNull THEN <<"0", "0", "0", "0">>
    ELSE Sq_to_string(mv.src) \o Sq_to_string(mv.dst)

\* Display for Move
Move_to_string(mv) ==
    IF mv.kind = KindNull THEN <<"0", "0", "0", "0">>
    ELSE Sq_to_string(mv.src) \o Sq_to_string(mv.dst)
         \o CASE mv.kind = KindPromoteKnight -> <<"n">>
              [] mv.kind = KindPromoteBishop -> <<"b">>
              [] mv.kind = KindPromoteRook -> <<"r">>
              [] mv.kind = KindPromoteQueen -> <<"q">>
              [] OTHER -> <<>>

\* ------------------------------------------------ the move-text machine
\* move texts as they may come from outside: moves of the positions and of
\* none, texts too short and too long, bytes that are no square, and texts
\* with characters of two, three and four bytes at every offset
UciTexts ==
    {<<"e", "2", "e", "4">>, <<"g", "1", "f", "3">>, <<"e", "7", "e", "5">>,
     <<"e", "1", "g", "1">>, <<"e", "1", "c", "1">>, <<"e", "8", "g", "8">>,
     <<"b", "7", "b", "8", "q">>, <<"b", "7", "a", "8", "n">>, <<"b", "7", "b", "8">>,
     <<"e", "4", "d", "3">>, <<"e", "5", "d", "6">>, <<"e", "2", "e", "5">>,
     <<"a", "1", "a", "1">>, <<"e", "2", "e", "4", "q">>,
     <<"0", "0", "0", "0">>, <<"0", "0", "0", "0", "0">>, <<"0", "0", "0">>,
     <<>>, <<"e">>, <<"e", "2">>, <<"e", "2", "e">>,
     <<"e", "2", "e", "4", "q", "q">>, <<"e", "2", " ", "e", "4">>,
     <<"i", "2", "e", "4">>, <<"e", "9", "e", "4">>, <<"E", "2", "e", "4">>,
     <<"e", "0", "e", "4">>, <<"2", "e", "4", "e">>,
     <<"e", "2", "e", "9">>, <<"e", "2", "x", "4">>, <<"e", "2", "-", "e", "4">>,
     <<"e", "7", "e", "8", "k">>, <<"e", "7", "e", "8", "Q">>, <<"e", "7", "e", "8", "p">>,
     <<"e", "7", "e", "8", " ">>,
     CharAcute, CharEuro, CharSmile,
     CharAcute \o <<"e", "4">>, CharAcute \o CharAcute, CharAcute \o <<"e", "4", "q">>,
     <<"e", "2">> \o CharAcute, <<"e", "2">> \o CharAcute \o <<"q">>,
     <<"e", "2">> \o CharEuro, <<"e", "2", "e", "4">> \o CharAcute,
     <<"e">> \o CharAcute \o <<"4">>, <<"e">> \o CharAcute \o <<"e", "4">>,
     <<"e">> \o CharEuro, <<"e">> \o CharEuro \o <<"4">>,
     CharEuro \o <<"4">>, CharEuro \o <<"e", "4">>, CharEuro \o CharAcute,
     <<"e", "2", "e">> \o CharAcute, <<"e", "7", "e", "8">> \o <<"<C3>">> \o <<"<A9>">>,
     CharSmile \o <<"q">>, <<"e">> \o CharSmile}

InitUci ==
    /\ pos \in GenBoards
    /\ \/ /\ text \in UciTexts
          /\ last = [op |-> "text", kind |-> KindNull, res |-> "Ok"]
       \/ /\ text = NoText
          /\ last = [op |-> "init", kind |-> KindNull, res |-> "Ok"]
    /\ stack = <<>>
    /\ game = 0
    /\ feature_slice = NoSlice
    /\ comm = NoComm
    /\ stops = NoStops
    /\ draft = RawBoard_empty
    /\ edits = 0
    /\ vres = NotValidated
    /\ walk = NoWalk

\* the result of a parse is kept; nothing else changes
UciParsed(op, out) ==
    /\ vres' = out
    /\ last' = [op |-> op, kind |-> IF out.err = "Ok" THEN out.mv.kind ELSE KindNull,
                res |-> out.err]
    /\ UNCHANGED <<pos, stack, game, draft, edits, walk, text, comm, stops, feature_slice>>

\* Move::from_uci on a text from outside
UciFromUci ==
    /\ last.op = "text"
    /\ \E out \in {Move_from_uci(text, pos)} : UciParsed("from_uci", out)

\* Move::from_uci_legal on a text from outside or on the text of a move
UciFromUciLegal ==
    /\ last.op \in {"text", "to_string"}
    /\ \E out \in {Move_from_uci_legal(text, pos)} : UciParsed("from_uci_legal", out)

\* Move::to_string of a legal move of the position
UciToString(mv) ==
    /\ last.op = "init"
    /\ mv \in LegalMoves(pos)
    /\ text' = Move_to_string(mv)
    /\ vres' = [err |-> "Ok", mv |-> mv]
    /\ last' = [op |-> "to_string", kind |-> mv.kind, res |-> "Ok"]
    /\ UNCHANGED <<pos, stack, game, draft, edits, walk, comm, stops, feature_slice>>

NextUci ==
    \/ UciFromUci
    \/ UciFromUciLegal
    \/ \E mv \in LegalMoves(pos) : UciToString(mv)

SpecUci == InitUci /\ [][NextUci]_vars

UciErrors == {"BadLength", "BadSrc", "BadDst", "BadPromote", "Validate"}

\* C21: for every text, Move::from_uci and Move::from_uci_legal return a Move
\* or one of the errors BadLength, BadSrc, BadDst, BadPromote, Validate; they
\* never panic.
C21_NoPanic ==
    last.op \in {"from_uci", "from_uci_legal"} => vres.err \in {"Ok"} \cup UciErrors

\* C22: the text of a legal move of the position, given to
\* Move::from_uci_legal on the same position, is returned as the same move,
\* kind included.
C22_UciRoundTrip ==
    [][(last.op = "to_string" /\ last'.op = "from_uci_legal") =>
           vres' = [err |-> "Ok", mv |-> vres.mv]]_vars

\* an en-passant capture was written and read back as an en-passant capture
C22_Witness ==
    /\ last.op = "from_uci_legal"
    /\ text \notin UciTexts
    /\ vres.err = "Ok"
    /\ vres.mv.kind = KindEnpassant
    /\ vres.mv \in LegalMoves(pos)
    /\ text = Move_to_string(vres.mv)


\* ------------------------------------------------ moves.rs: PackedMove
\* usize values as the sets of their one bits, for |, &, << and >>
WordBits == 0..19
BitsOf(n) == {i \in WordBits : (n \div 2^i) % 2 = 1}
OfBits(bits) == SumOver(bits, [i \in bits |-> 2^i])
usize_or(a, z) == OfBits(BitsOf(a) \cup BitsOf(z))
usize_and(a, z) == OfBits(BitsOf(a) \cap BitsOf(z))
usize_shl(a, by) == OfBits({i + by : i \in BitsOf(a)})
usize_shr(a, by) == OfBits({i - by : i \in {x \in BitsOf(a) : x >= by}})

\* faulty variant: the source square shifted by 5, so that its top bit falls
\* on the lowest bit of the kind
PackedMove_from_shift5(mv) ==
    usize_or(usize_or(usize_shl(mv.kind, 12), usize_shl(mv.src, 5)), mv.dst) % U16

\* From<Move> for PackedMove: the value after the cast to u16
PackedMove_from(mv) ==
    usize_or(usize_or(usize_shl(mv.kind, 12), usize_shl(mv.src, 6)), mv.dst) % U16

\* From<PackedMove> for Move; from_index_unchecked of a kind of 11 or more is
\* undefined, which no value packed from a Move reaches
Move_from_packed(val) ==
    [kind |-> usize_shr(val, 12),
     src |-> usize_and(usize_shr(val, 6), 63),
     dst |-> usize_and(val, 63)]

\* ------------------------------------------------- the packing machine
\* every Move value: a kind and two squares (the field unused is always 0)
AllMoves == [kind : MoveKinds, src : Sq, dst : Sq]

InitPack ==
    /\ pos = Board_try_from(RawBoard_start).board
    /\ \E mv \in AllMoves : vres = [err |-> "Ok", mv |-> mv]
    /\ last = [op |-> "init", kind |-> KindNull, res |-> "Ok"]
    /\ stack = <<>>
    /\ game = 0
    /\ feature_slice = NoSlice
    /\ comm = NoComm
    /\ stops = NoStops
    /\ draft = RawBoard_empty
    /\ edits = 0
    /\ walk = NoWalk
    /\ text = NoText

\* PackedMove::from(m)
Pack ==
    /\ last.op = "init"
    /\ vres' = [err |-> "Ok", mv |-> vres.mv, packed |-> PackedMove_from(vres.mv)]
    /\ last' = [op |-> "pack", kind |-> vres.mv.kind, res |-> "Ok"]
    /\ UNCHANGED <<pos, stack, game, draft, edits, walk, text, comm, stops, feature_slice>>

\* Move::from(p)
Unpack ==
    /\ last.op = "pack"
    /\ vres' = [err |-> "Ok", mv |-> vres.mv, packed |-> vres.packed,
                back |-> Move_from_packed(vres.packed)]
    /\ last' = [op |-> "unpack", kind |-> vres.mv.kind, res |-> "Ok"]
    /\ UNCHANGED <<pos, stack, game, draft, edits, walk, text, comm, stops, feature_slice>>

NextPack ==
    \/ Pack
    \/ Unpack

SpecPack == InitPack /\ [][NextPack]_vars

\* C23: the packed value of a Move is kind * 4096 + src * 64 + dst and fits
\* 16 bits; unpacking it gives the Move back; the double push e2e4 packs to
\* 23844.
C23_PackLossless ==
    /\ last.op \in {"pack", "unpack"} =>
          /\ vres.packed = vres.mv.kind * 4096 + vres.mv.src * 64 + vres.mv.dst
          /\ vres.packed < 65536
          /\ vres.mv = Move_new_unchecked(KindPawnDouble, Sq_make(FileE, R2), Sq_make(FileE, R4))
                => vres.packed = 23844
    /\ last.op = "unpack" => vres.back = vres.mv

\* the double push e2e4 of test_pack was packed to 23844 and unpacked
C23_Witness ==
    /\ last.op = "unpack"
    /\ vres.mv = Move_new_unchecked(KindPawnDouble, Sq_make(FileE, R2), Sq_make(FileE, R4))
    /\ vres.packed = 23844
    /\ vres.back = vres.mv

\* ===================================================== colour symmetry
\* The rank mirror of a square, a cell, a set of castling rights, a position
\* and a move: files stay, ranks are reflected and the colours are swapped.
MirrorSq(s) == IF s = NoSq THEN NoSq ELSE Sq_make(Sq_file(s), 7 - Sq_rank(s))

MirrorCell(cell) ==
    IF cell = CellNone THEN CellNone ELSE Cell_make(inv(Cell_color(cell)), Cell_piece(cell))

MirrorRights(cr) ==
    {CastlingRights_to_index(inv(c), s) : <<c, s>> \in
        {p \in Colors \X CastlingSides : CastlingRights_to_index(p[1], p[2]) \in cr}}

MirrorSquares(squares) == [s \in Sq |-> MirrorCell(squares[MirrorSq(s)])]

MirrorRaw(raw) ==
    [squares |-> MirrorSquares(raw.squares), side |-> inv(raw.side),
     castling |-> MirrorRights(raw.castling), ep_src |-> MirrorSq(raw.ep_src),
     move_counter |-> raw.move_counter, move_number |-> raw.move_number]

MirrorMove(mv) ==
    IF mv.kind = KindNull THEN mv
    ELSE Move_new_unchecked(mv.kind, MirrorSq(mv.src), MirrorSq(mv.dst))

\* mailbox, castling rights, en-passant source and halfmove clock of y are
\* the mirror image of those of x
MirrorImage(x, y) ==
    /\ y.r.squares = MirrorSquares(x.r.squares)
    /\ y.r.castling = MirrorRights(x.r.castling)
    /\ y.r.ep_src = MirrorSq(x.r.ep_src)
    /\ y.r.move_counter = x.r.move_counter

\* semilegality, legality and the position made agree for mv on b and its
\* mirror on mb
MirrorAgrees(b, mb, mv) ==
    LET mm == MirrorMove(mv)
        semi == Move_is_semilegal(mv, b)
    IN /\ Move_is_semilegal(mm, mb) = semi
       /\ semi => Move_is_legal_unchecked(mm, mb) = Move_is_legal_unchecked(mv, b)
       /\ ((semi /\ Move_is_legal_unchecked(mv, b)) \/ mv.kind = KindNull) =>
              MirrorImage(make_move_unchecked(b, mv), make_move_unchecked(mb, mm))

\* C24: for the position b the generator has just listed and every move of
\* the side to move (the null move included), the colour-swapped,
\* rank-mirrored position is a validated Board, its generated move set is
\* the mirror of b's, the mirrored move is semilegal and legal exactly when
\* the move is, and making the mirrored move gives the mirror image of
\* make_move(b, m) in mailbox, castling rights, en-passant source and
\* halfmove clock.
C24_ColourSymmetry ==
    last.op = "gen_all" =>
        \E out \in {Board_try_from(MirrorRaw(pos.r))} :
            /\ out.err = "Ok"
            /\ out.board.r = MirrorRaw(pos.r)
            /\ MoveGen_gen_all(out.board) = {MirrorMove(mv) : mv \in last.res}
            /\ \A mv \in CandidateMoves(pos) \cup {Move_NULL} :
                   MirrorAgrees(pos, out.board, mv)

\* The same with the null move left out: every other move of the side to
\* move is treated alike by the two specializations.
C24_SymmetryExceptNull ==
    last.op = "gen_all" =>
        \E out \in {Board_try_from(MirrorRaw(pos.r))} :
            /\ out.err = "Ok"
            /\ out.board.r = MirrorRaw(pos.r)
            /\ MoveGen_gen_all(out.board) = {MirrorMove(mv) : mv \in last.res}
            /\ \A mv \in CandidateMoves(pos) \ {Move_NULL} :
                   MirrorAgrees(pos, out.board, mv)

\* ================================================ between.rs: the lookups
\* between, bishop_strict and rook_strict called on a pair of squares in
\* both orders.
InitBetween ==
    /\ pos \in {Board_try_from(RawBoard_start).board}
    /\ stack = <<>>
    /\ game = 0
    /\ feature_slice = NoSlice
    /\ comm = NoComm
    /\ stops = NoStops
    /\ last = [op |-> "init", kind |-> KindNull, res |-> "Ok"]
    /\ draft = RawBoard_empty
    /\ edits = 0
    /\ vres \in {[err |-> "Ok", src |-> p[1], dst |-> p[2]] : p \in Sq \X Sq}
    /\ walk = NoWalk
    /\ text = NoText

Looked(op, fwd, bwd) ==
    /\ last.op = "init"
    /\ vres' = [err |-> "Ok", src |-> vres.src, dst |-> vres.dst, fwd |-> fwd, bwd |-> bwd]
    /\ last' = [op |-> op, kind |-> KindNull, res |-> "Ok"]
    /\ UNCHANGED <<pos, stack, game, draft, edits, walk, text, comm, stops, feature_slice>>

LookBetween == Looked("between", between(vres.src, vres.dst), between(vres.dst, vres.src))

LookBishopStrict ==
    Looked("bishop_strict", bishop_strict(vres.src, vres.dst), bishop_strict(vres.dst, vres.src))

LookRookStrict ==
    Looked("rook_strict", rook_strict(vres.src, vres.dst), rook_strict(vres.dst, vres.src))

NextBetween ==
    \/ LookBetween
    \/ LookBishopStrict
    \/ LookRookStrict

SpecBetween == InitBetween /\ [][NextBetween]_vars

\* two squares on one rank, one file or one diagonal
SharesLine(a, z) ==
    \/ Sq_file(a) = Sq_file(z)
    \/ Sq_rank(a) = Sq_rank(z)
    \/ abs_diff(Sq_file(a), Sq_file(z)) = abs_diff(Sq_rank(a), Sq_rank(z))

\* C25: between, bishop_strict and rook_strict give the same set for a pair
\* of squares in either order, and between gives the empty set for a pair
\* that shares no rank, file or diagonal.
C25_BetweenSymmetric ==
    /\ last.op \in {"between", "bishop_strict", "rook_strict"} => vres.fwd = vres.bwd
    /\ (last.op = "between" /\ ~SharesLine(vres.src, vres.dst)) => vres.fwd = Bitboard_EMPTY

\* between(e7, b4), the pair of test_bishop given in descending order: c5 and d6
C25_Witness ==
    /\ last.op = "between"
    /\ vres.src = Sq_make(FileE, R7)
    /\ vres.dst = Sq_make(FileB, R4)
    /\ vres.fwd = {Sq_make(FileC, R5), Sq_make(FileD, R6)}
    /\ vres.bwd = vres.fwd

\* ================================================== bitboard.rs: the Iter
\* A u64 is the set of its one bits (bit i is the square of index i).
\* x.trailing_zeros(): the index of the lowest one bit, 64 for zero.
u64_trailing_zeros(x) == IF x = {} THEN 64 ELSE CHOOSE i \in x : \A j \in x : i <= j

\* x.wrapping_sub(1): the lowest one bit borrows, every bit below it is set;
\* zero wraps to all ones.
u64_wrapping_sub_one(x) ==
    IF x = {} THEN 0..63
    ELSE (x \ {u64_trailing_zeros(x)}) \cup {i \in 0..63 : i < u64_trailing_zeros(x)}

\* Bitboard::len
Bitboard_len(bb) == Cardinality(bb)

\* Bitboard::into_iter
Bitboard_into_iter(bb) == bb

\* faulty variant: the highest square is yielded and removed
Iter_next_highest(it) ==
    IF it = {} THEN [item |-> NoSq, it |-> it]
    ELSE LET top == CHOOSE i \in it : \A j \in it : j <= i
         IN [item |-> top, it |-> it \ {top}]

\* Iter::next: the item (NoSq for None) and the iterator after the call
Iter_next(it) ==
    IF it = {} THEN [item |-> NoSq, it |-> it]
    ELSE [item |-> u64_trailing_zeros(it), it |-> it \cap u64_wrapping_sub_one(it)]

\* The bitboards iterated: every set of the squares below, the full board
\* and the board without a4 and e2 of test_bitops.
IterSqs ==
    {Sq_make(FileA, R8), Sq_make(FileB, R8), Sq_make(FileH, R8), Sq_make(FileA, R4),
     Sq_make(FileF, R3), Sq_make(FileE, R2), Sq_make(FileG, R1), Sq_make(FileH, R1)}

IterBitboards ==
    SUBSET IterSqs \cup {Bitboard_FULL, Bitboard_FULL \ {Sq_make(FileA, R4), Sq_make(FileE, R2)}}

InitIter ==
    /\ pos \in {Board_try_from(RawBoard_start).board}
    /\ stack = <<>>
    /\ game = 0
    /\ feature_slice = NoSlice
    /\ comm = NoComm
    /\ stops = NoStops
    /\ last = [op |-> "into_iter", kind |-> KindNull, res |-> "Ok"]
    /\ draft = RawBoard_empty
    /\ edits = 0
    /\ vres \in {[err |-> "Ok", bb |-> bb, it |-> Bitboard_into_iter(bb), out |-> <<>>,
                  ended |-> 0] : bb \in IterBitboards}
    /\ walk = NoWalk
    /\ text = NoText

\* one call of next(); after the first None one more call is made
IterNext ==
    /\ vres.ended < 2
    /\ \E res \in {Iter_next(vres.it)} :
          /\ vres' = [vres EXCEPT !.it = res.it,
                                  !.out = IF res.item = NoSq THEN @ ELSE Append(@, res.item),
                                  !.ended = IF res.item = NoSq THEN @ + 1 ELSE 0]
          /\ last' = [op |-> "next", kind |-> KindNull,
                      res |-> IF res.item = NoSq THEN "None" ELSE "Some"]
    /\ UNCHANGED <<pos, stack, game, draft, edits, walk, text, comm, stops, feature_slice>>

NextIter == IterNext

SpecIter == InitIter /\ [][NextIter]_vars

\* the squares of a bitboard in increasing index
RECURSIVE Ascending(_)
Ascending(bb) ==
    IF bb = {} THEN <<>>
    ELSE LET low == CHOOSE i \in bb : \A j \in bb : i <= j
         IN <<low>> \o Ascending(bb \ {low})

\* C26: the items yielded so far are the lowest squares of the bitboard in
\* strictly increasing index, each once; what is left to yield is the rest;
\* when next() has returned None every square has been yielded, their number
\* is len(), the sequence is the one fixed by the bitboard value, and next()
\* keeps returning None.
C26_IterAscending ==
    last.op \in {"into_iter", "next"} =>
        /\ \A i \in 1..Len(vres.out) : \A j \in 1..Len(vres.out) :
               i < j => vres.out[i] < vres.out[j]
        /\ vres.out = SubSeq(Ascending(vres.bb), 1, Len(vres.out))
        /\ vres.it = vres.bb \ {vres.out[i] : i \in 1..Len(vres.out)}
        /\ vres.ended > 0 =>
               /\ last.res = "None"
               /\ {vres.out[i] : i \in 1..Len(vres.out)} = vres.bb
               /\ Len(vres.out) = Bitboard_len(vres.bb)
               /\ vres.out = Ascending(vres.bb)
        /\ (last.op = "next" /\ vres.ended = 0) => last.res = "Some"

\* the bitboard of test_iter has been iterated to its end: a4, f3, e2
C26_Witness ==
    /\ last.op = "next"
    /\ vres.ended = 2
    /\ vres.bb = {Sq_make(FileA, R4), Sq_make(FileE, R2), Sq_make(FileF, R3)}
    /\ vres.out = <<Sq_make(FileA, R4), Sq_make(FileF, R3), Sq_make(FileE, R2)>>

\* ------------------------------------------- the en-passant source of a move
\* the move just made (the step's new top of the stack)
MadeMove == stack'[Len(stack')].mv

\* C27: after a move is made the en-passant source is the destination when
\* the move is a PawnDouble, whether or not an enemy pawn can capture, and
\* None after every other kind; the hash holds the en-passant key of a square
\* exactly when that square is the source, so the key of a source set before
\* the move is no longer in it.
C27_EpSourceAfterMove ==
    [][Made =>
         /\ (pos'.r.ep_src /= NoSq) <=> (MadeMove.kind = KindPawnDouble)
         /\ MadeMove.kind = KindPawnDouble => pos'.r.ep_src = MadeMove.dst
         /\ \A p \in Sq : (zobrist_enpassant(p) \subseteq pos'.hash) <=> (pos'.r.ep_src = p)
         /\ pos.r.ep_src /= NoSq =>
                /\ pos'.r.ep_src /= pos.r.ep_src
                /\ zobrist_enpassant(pos.r.ep_src) \cap pos'.hash = {}]_vars

\* a PawnDouble was made on a Board whose en-passant source was set; no enemy
\* pawn stands beside its destination, which is the new source
C27_Witness ==
    /\ last.op = "make"
    /\ last.kind = KindPawnDouble
    /\ stack /= <<>>
    /\ stack[Len(stack)].before.r.ep_src /= NoSq
    /\ pos.r.ep_src = stack[Len(stack)].mv.dst
    /\ \A s \in Sq :
           (Sq_rank(s) = Sq_rank(pos.r.ep_src)
            /\ abs_diff(Sq_file(s), Sq_file(pos.r.ep_src)) = 1)
               => Board_get(pos, s) /= Cell_make(pos.r.side, Pawn)

\* ------------------------------------------------- the en-passant capture
\* the square of the pawn an Enpassant move takes: the destination's file on
\* the source's rank
TakenSq(mv) == Sq_make(Sq_file(mv.dst), Sq_rank(mv.src))

\* the move being unmade (the top of the stack before the step)
UnmadeMove == stack[Len(stack)].mv

\* C28: an Enpassant move puts the capturing pawn on the destination, which
\* was empty, empties its source and removes the enemy pawn from the square
\* on the destination's file and the source's rank, which is not the
\* destination; every other square keeps its cell; unmaking the move puts the
\* enemy pawn back on that square and the capturing pawn back on its source.
C28_EnpassantSquares ==
    [][/\ (Made /\ MadeMove.kind = KindEnpassant) =>
              \E mv \in {MadeMove} : \E c \in {pos.r.side} :
                  /\ TakenSq(mv) \notin {mv.src, mv.dst}
                  /\ pos.r.squares[mv.src] = Cell_make(c, Pawn)
                  /\ pos.r.squares[mv.dst] = CellNone
                  /\ pos.r.squares[TakenSq(mv)] = Cell_make(inv(c), Pawn)
                  /\ pos'.r.squares[mv.src] = CellNone
                  /\ pos'.r.squares[mv.dst] = Cell_make(c, Pawn)
                  /\ pos'.r.squares[TakenSq(mv)] = CellNone
                  /\ \A s \in Sq \ {mv.src, mv.dst, TakenSq(mv)} :
                         pos'.r.squares[s] = pos.r.squares[s]
       /\ (Unmade /\ UnmadeMove.kind = KindEnpassant) =>
              \E mv \in {UnmadeMove} : \E c \in {inv(pos.r.side)} :
                  /\ pos.r.squares[TakenSq(mv)] = CellNone
                  /\ pos'.r.squares[TakenSq(mv)] = Cell_make(inv(c), Pawn)
                  /\ pos'.r.squares[mv.src] = Cell_make(c, Pawn)
                  /\ pos'.r.squares[mv.dst] = CellNone
                  /\ \A s \in Sq \ {mv.src, mv.dst, TakenSq(mv)} :
                         pos'.r.squares[s] = pos.r.squares[s]]_vars

\* an Enpassant move was unmade: the enemy pawn stands on the en-passant
\* source again and the square behind it is empty
C28_Witness ==
    /\ last.op = "unmake"
    /\ last.kind = KindEnpassant
    /\ pos.r.ep_src /= NoSq
    /\ pos.r.squares[pos.r.ep_src] = Cell_make(inv(pos.r.side), Pawn)
    /\ pos.r.squares[pos.r.ep_src + pawn_forward_delta(pos.r.side)] = CellNone

\* ---------------------------------------------------- the castling moves
\* the home-rank squares a castling move of colour c touches, with the cells
\* they hold afterwards
CastledCells(c, kind) ==
    LET rank == castling_rank(c)
        king == Cell_make(c, King)
        rook == Cell_make(c, Rook)
    IN IF kind = KindCastlingKingside
       THEN (Sq_make(FileE, rank) :> CellNone) @@ (Sq_make(FileF, rank) :> rook)
            @@ (Sq_make(FileG, rank) :> king) @@ (Sq_make(FileH, rank) :> CellNone)
       ELSE (Sq_make(FileA, rank) :> CellNone) @@ (Sq_make(FileC, rank) :> king)
            @@ (Sq_make(FileD, rank) :> rook) @@ (Sq_make(FileE, rank) :> CellNone)

\* every bitboard of the Board is the set of squares the mailbox gives it
CachesAgree(board) ==
    /\ \A cell \in Cells \ {CellNone} :
           board.cells[cell] = {s \in Sq : board.r.squares[s] = cell}
    /\ board.white = {s \in Sq : Cell_color(board.r.squares[s]) = White}
    /\ board.black = {s \in Sq : Cell_color(board.r.squares[s]) = Black}
    /\ board.all_v = board.white \cup board.black

\* C29: a castling move of the side c leaves, on c's home rank, the king on g
\* and the rook on f with e and h empty (king-side), or the king on c and the
\* rook on d with a and e empty (queen-side); every other square keeps its
\* cell; both castling rights of c are cleared and the opponent's are kept;
\* the bitboards agree with the mailbox afterwards.
C29_CastlingPlacement ==
    [][(Made /\ MadeMove.kind \in {KindCastlingKingside, KindCastlingQueenside}) =>
          \E c \in {pos.r.side} : \E after \in {CastledCells(pos.r.side, MadeMove.kind)} :
              /\ \A s \in DOMAIN after : pos'.r.squares[s] = after[s]
              /\ \A s \in Sq \ DOMAIN after : pos'.r.squares[s] = pos.r.squares[s]
              /\ \A s \in CastlingSides :
                     /\ ~CastlingRights_has(pos'.r.castling, c, s)
                     /\ CastlingRights_has(pos'.r.castling, inv(c), s)
                            = CastlingRights_has(pos.r.castling, inv(c), s)
              /\ CachesAgree(pos')]_vars

\* Black has castled queen-side while White keeps a castling right
C29_Witness ==
    /\ last.op = "make"
    /\ last.kind = KindCastlingQueenside
    /\ pos.r.side = White
    /\ pos.r.squares[Sq_make(FileC, R8)] = BlackKing
    /\ pos.r.squares[Sq_make(FileD, R8)] = BlackRook
    /\ CastlingRights_has_color(pos.r.castling, White)
    /\ ~CastlingRights_has_color(pos.r.castling, Black)

\* ------------------------------------------- the two ways to the legal moves
\* the moves Move::new accepts
NewMoves == {m : m \in {mv \in AllMoves : Move_new(mv.kind, mv.src, mv.dst) = "Ok"}}

\* C30: the moves of the list of gen_all that pass is_legal_unchecked are
\* the moves Move::new accepts and validate finds Ok on the same Board, and
\* every move of the list is well-formed and semilegal.
C30_GenEqualsValidate ==
    last.op = "gen_all" =>
        /\ {mv \in last.res : Move_is_legal_unchecked(mv, pos)}
               = {mv \in NewMoves : Move_validate(mv, pos) = "Ok"}
        /\ \A mv \in last.res : Move_is_well_formed(mv) /\ Move_is_semilegal(mv, pos)

\* gen_all has listed an en-passant capture that fails is_legal_unchecked
\* beside moves that validate finds Ok
C30_Witness ==
    /\ last.op = "gen_all"
    /\ \E mv \in last.res : mv.kind = KindEnpassant /\ ~Move_is_legal_unchecked(mv, pos)
    /\ \E mv \in last.res : Move_validate(mv, pos) = "Ok"

\* ------------------------------------------- the categories of generation
IsCastlingMove(mv) == mv.kind \in {KindCastlingKingside, KindCastlingQueenside}

\* C31: on the Board a generating call has just been made on, the moves of
\* gen_all are those of gen_capture and those of gen_simple, which share no
\* move; the moves of gen_simple are those of gen_simple_no_promote and those
\* of gen_simple_promote, which share no move; a move of gen_capture is an
\* en-passant capture or goes to a square holding an enemy piece, a move of
\* gen_simple goes to an empty square, and the castling moves are in
\* gen_simple_no_promote.
C31_CategoriesPartition ==
    last.op \in GenOps =>
        \E all \in {MoveGen_gen_all(pos)} : \E cap \in {MoveGen_gen_capture(pos)} :
        \E simple \in {MoveGen_gen_simple(pos)} :
        \E plain \in {MoveGen_gen_simple_no_promote(pos)} :
        \E promo \in {MoveGen_gen_simple_promote(pos)} :
            /\ last.res = CASE last.op = "gen_all" -> all
                            [] last.op = "gen_capture" -> cap
                            [] last.op = "gen_simple" -> simple
                            [] last.op = "gen_simple_no_promote" -> plain
                            [] last.op = "gen_simple_promote" -> promo
            /\ all = cap \cup simple
            /\ cap \cap simple = {}
            /\ simple = plain \cup promo
            /\ plain \cap promo = {}
            /\ \A mv \in cap :
                   \/ mv.kind = KindEnpassant
                   \/ Cell_color(Board_get(pos, mv.dst)) = inv(pos.r.side)
            /\ \A mv \in simple : Board_get(pos, mv.dst) = CellNone /\ mv.kind /= KindEnpassant
            /\ \A mv \in promo : mv.kind \in PromoteKinds
            /\ \A mv \in plain : mv.kind \notin PromoteKinds
            /\ \A mv \in all : IsCastlingMove(mv) => mv \in plain

\* gen_simple_promote has listed promotions on a Board where gen_capture
\* holds a promotion with capture and gen_simple_no_promote a king move
C31_Witness ==
    /\ last.op = "gen_simple_promote"
    /\ last.res /= {}
    /\ \E mv \in MoveGen_gen_capture(pos) : mv.kind \in PromoteKinds
    /\ \E mv \in MoveGen_gen_simple_no_promote(pos) : Board_get(pos, mv.src) = WhiteKing

\* ============================================ the counters at their limit
\* `x += 1` on a u16 holding 65535: the build decides between a panic
\* (overflow checks on) and the wrapped value (overflow checks off).
u16_inc_overflows(x) == x + 1 >= U16

\* The Boards of the start positions with the counters set as the FEN parser
\* accepts them, near and at the limit of u16.
CounterValues == {0, 1, U16 - 2, U16 - 1}

CounterRaws == {RawCastlingA, RawCastlingB, RawPawns, RawPawnsBlack}

CounterBoards ==
    {Board_try_from([raw EXCEPT !.move_counter = mc, !.move_number = mn]).board :
        <<raw, mc, mn>> \in
            {t \in CounterRaws \X CounterValues \X (CounterValues \ {0}) :
                Board_try_from(t[1]).err = "Ok"}}

InitCounters ==
    /\ pos \in CounterBoards
    /\ stack = <<>>
    /\ game = 0
    /\ feature_slice = NoSlice
    /\ comm = NoComm
    /\ stops = NoStops
    /\ last = [op |-> "init", kind |-> KindNull, res |-> "Ok"]
    /\ draft = RawBoard_empty
    /\ edits = 0
    /\ vres = NotValidated
    /\ walk = NoWalk
    /\ text = NoText

\* do_make_move reaches an increment that overflows
MakeOverflows(b, mv) ==
    \/ /\ Board_get(b, mv.dst) = CellNone
       /\ Board_get(b, mv.src) /= Cell_make(b.r.side, Pawn)
       /\ u16_inc_overflows(b.r.move_counter)
    \/ /\ b.r.side = Black
       /\ u16_inc_overflows(b.r.move_number)

\* make_move_unchecked on a legal move: the Board made, or a panic in the
\* build that checks the increments
CountersMake(mv) ==
    /\ Len(stack) < MaxPly
    /\ last.res /= "panic"
    /\ Move_validate(mv, pos) = "Ok"
    /\ \/ /\ pos' = make_move_unchecked(pos, mv)
          /\ last' = [op |-> "make", kind |-> mv.kind, res |-> "Ok"]
       \/ /\ MakeOverflows(pos, mv)
          /\ pos' = pos
          /\ last' = [op |-> "make", kind |-> mv.kind, res |-> "panic"]
    /\ stack' = Append(stack, [mv |-> mv, u |-> RawUndo_of(pos, mv), before |-> pos])
    /\ UNCHANGED <<game, draft, edits, vres, walk, text, comm, stops, feature_slice>>

NextCounters == \E mv \in CandidateMoves(pos) : CountersMake(mv)

SpecCounters == InitCounters /\ [][NextCounters]_vars

\* C32: a legal move made on a Board with any counters the FEN parser accepts
\* does not panic, flips the side, leaves the fullmove number one greater
\* after a Black move and as it was after a White move, and leaves the
\* halfmove clock 0 after a capture or a pawn move and one greater otherwise,
\* as numbers, without wrap-around.
C32_CountersExact ==
    (last.op = "make" /\ stack /= <<>>) =>
        \E top \in {stack[Len(stack)]} : \E old \in {stack[Len(stack)].before} :
            /\ last.res = "Ok"
            /\ pos.r.side = inv(old.r.side)
            /\ pos.r.move_number =
                   IF old.r.side = Black THEN old.r.move_number + 1 ELSE old.r.move_number
            /\ pos.r.move_counter =
                   IF IsCapture(old, top.mv) \/ IsPawnMove(old, top.mv)
                   THEN 0 ELSE old.r.move_counter + 1

\* ======================================================= util.rs: StopState
\* Threads calling stop() and threads calling register_on_stop(), each with a
\* callback of its own, run against one StopState; a step is one access to the
\* atomic flag or to the mutex. The atomics are read and written in one total
\* order; the accesses to on_stop are ordered by its mutex.
Stoppers == {"stop1", "stop2"}
Registrars == {"reg1", "reg2"}

\* StopState::new
StopState_new == [is_stopped |-> FALSE, on_stop |-> [some |-> TRUE, vec |-> <<>>]]

\* faulty variant: the swap's result is ignored
StopState_swap_blind(s) == [old |-> FALSE, s |-> [s EXCEPT !.is_stopped = TRUE]]

\* self.is_stopped.swap(true, AcqRel): the old value and the StopState after
StopState_swap(s) == [old |-> s.is_stopped, s |-> [s EXCEPT !.is_stopped = TRUE]]

\* StopState::is_stopped
StopState_is_stopped(s) == s.is_stopped

\* on_stop.take().unwrap(): the callbacks and the StopState after, or a panic
StopState_take(s) ==
    IF s.on_stop.some
    THEN [err |-> "Ok", vec |-> s.on_stop.vec, s |-> [s EXCEPT !.on_stop = [some |-> FALSE, vec |-> <<>>]]]
    ELSE [err |-> "panic", vec |-> <<>>, s |-> s]

\* on_stop.as_mut().unwrap().push(callback)
StopState_push(s, cb) ==
    IF s.on_stop.some
    THEN [err |-> "Ok", s |-> [s EXCEPT !.on_stop.vec = Append(@, cb)]]
    ELSE [err |-> "panic", s |-> s]

InitStop ==
    /\ pos \in {Board_try_from(RawBoard_start).board}
    /\ stack = <<>>
    /\ game = 0
    /\ feature_slice = NoSlice
    /\ comm = NoComm
    /\ stops = [s |-> StopState_new, lock |-> "free",
                pc |-> [t \in Stoppers \cup Registrars |-> "start"],
                taken |-> [t \in Stoppers |-> <<>>],
                calls |-> [r \in Registrars |-> 0],
                panic |-> FALSE]
    /\ last = [op |-> "init", kind |-> KindNull, res |-> "Ok"]
    /\ draft = RawBoard_empty
    /\ edits = 0
    /\ vres = NotValidated
    /\ walk = NoWalk
    /\ text = NoText

StopStep(next) ==
    /\ stops' = next
    /\ UNCHANGED <<pos, stack, game, last, draft, edits, vres, walk, text, comm, feature_slice>>

\* stop(): the swap and the early return
StopSwap(t) ==
    /\ stops.pc[t] = "start"
    /\ \E res \in {StopState_swap(stops.s)} :
          StopStep([stops EXCEPT !.s = res.s,
                                 !.pc[t] = IF res.old THEN "done" ELSE "lock"])

\* stop(): self.on_stop.lock()
StopLock(t) ==
    /\ stops.pc[t] = "lock"
    /\ stops.lock = "free"
    /\ StopStep([stops EXCEPT !.lock = t, !.pc[t] = "take"])

\* stop(): on_stop.take().unwrap()
StopTake(t) ==
    /\ stops.pc[t] = "take"
    /\ \E res \in {StopState_take(stops.s)} :
          StopStep(IF res.err = "panic"
                   THEN [stops EXCEPT !.panic = TRUE, !.pc[t] = "panicked"]
                   ELSE [stops EXCEPT !.s = res.s, !.taken[t] = res.vec, !.pc[t] = "call"])

\* stop(): one turn of the loop over the callbacks taken, then the return,
\* which releases the mutex
StopCall(t) ==
    /\ stops.pc[t] = "call"
    /\ StopStep(IF stops.taken[t] = <<>>
                THEN [stops EXCEPT !.lock = "free", !.pc[t] = "done"]
                ELSE [stops EXCEPT !.calls[Head(stops.taken[t])] = @ + 1,
                                   !.taken[t] = Tail(@)])

\* register_on_stop(): the first test of is_stopped
RegisterTest(t) ==
    /\ stops.pc[t] = "start"
    /\ StopStep([stops EXCEPT !.pc[t] = IF StopState_is_stopped(stops.s)
                                         THEN "call_now" ELSE "lock"])

\* register_on_stop(): callback(); return
RegisterCallNow(t) ==
    /\ stops.pc[t] = "call_now"
    /\ StopStep([stops EXCEPT !.calls[t] = @ + 1, !.pc[t] = "done"])

\* register_on_stop(): self.on_stop.lock()
RegisterLock(t) ==
    /\ stops.pc[t] = "lock"
    /\ stops.lock = "free"
    /\ StopStep([stops EXCEPT !.lock = t, !.pc[t] = "retest"])

\* register_on_stop(): the test under the mutex, with drop(on_stop)
RegisterRetest(t) ==
    /\ stops.pc[t] = "retest"
    /\ StopStep(IF StopState_is_stopped(stops.s)
                THEN [stops EXCEPT !.lock = "free", !.pc[t] = "call_now"]
                ELSE [stops EXCEPT !.pc[t] = "push"])

\* register_on_stop(): the push and the return, which releases the mutex
RegisterPush(t) ==
    /\ stops.pc[t] = "push"
    /\ \E res \in {StopState_push(stops.s, t)} :
          StopStep(IF res.err = "panic"
                   THEN [stops EXCEPT !.panic = TRUE, !.pc[t] = "panicked"]
                   ELSE [stops EXCEPT !.s = res.s, !.lock = "free", !.pc[t] = "done"])

NextStop ==
    \/ \E t \in Stoppers : StopSwap(t)
    \/ \E t \in Stoppers : StopLock(t)
    \/ \E t \in Stoppers : StopTake(t)
    \/ \E t \in Stoppers : StopCall(t)
    \/ \E t \in Registrars : RegisterTest(t)
    \/ \E t \in Registrars : RegisterCallNow(t)
    \/ \E t \in Registrars : RegisterLock(t)
    \/ \E t \in Registrars : RegisterRetest(t)
    \/ \E t \in Registrars : RegisterPush(t)

SpecStop == InitStop /\ [][NextStop]_vars

\* C35: no unwrap of the callback list fails; no callback is invoked twice;
\* only one stop() takes the list; when every call that was begun has
\* returned, each registered callback has been invoked once if a stop() was
\* made and not at all if none was.
C35_StopRaceFree ==
    /\ ~stops.panic
    /\ \A r \in Registrars : stops.calls[r] <= 1
    /\ Cardinality({t \in Stoppers : stops.pc[t] \in {"lock", "take", "call"}}) <= 1
    /\ (\A t \in Stoppers \cup Registrars : stops.pc[t] \in {"start", "done"}) =>
           \A r \in Registrars :
               stops.pc[r] = "done" =>
                   stops.calls[r] = IF \E t \in Stoppers : stops.pc[t] = "done" THEN 1 ELSE 0

\* both stop() calls have returned; one callback was pushed and invoked by
\* stop(), the other was registered after the stop and invoked at once
C35_Witness ==
    /\ \A t \in Stoppers \cup Registrars : stops.pc[t] = "done"
    /\ stops.calls = [r \in Registrars |-> 1]
    /\ ~stops.s.on_stop.some
    /\ stops.s.is_stopped

\* ============================================================ uci::comm
\* The main loop of comm and the search thread it spawns. A step is one access
\* to a mutex, to the atomic `searching` or to a channel; go_chan and ack_chan
\* have capacity 0, so a send and the matching recv are one joint step. Each
\* search has a StopState of its own, named by its number; stop() on it is one
\* step here (its interleavings are those of SpecStop). Writes to the output
\* succeed. The engine is the record of the values last given to it.
MaxSearches == 2
SettingValues == {0, 1}
NoValue == 2
NoStop == 0

\* DelayedState::new
DelayedState_new == [debug |-> NoValue, opts |-> NoValue, new_game |-> FALSE, position |-> NoValue]

DelayedState_set_new_game(st) == [st EXCEPT !.new_game = TRUE]

DelayedState_set_position(st, position) == [st EXCEPT !.position = position]

DelayedState_set_debug(st, val) == [st EXCEPT !.debug = val]

DelayedState_set_opt(st, val) == [st EXCEPT !.opts = val]

\* faulty variant: the position is passed on but stays in the delayed state
DelayedState_apply_keep(st, engine) ==
    [st |-> [debug |-> NoValue, opts |-> NoValue, new_game |-> FALSE, position |-> st.position],
     on_new_game |-> st.new_game,
     engine |-> [debug |-> IF st.debug /= NoValue THEN st.debug ELSE engine.debug,
                 opts |-> IF st.opts /= NoValue THEN st.opts ELSE engine.opts,
                 position |-> IF st.position /= NoValue THEN st.position ELSE engine.position]]

\* DelayedState::apply: the delayed state and the engine afterwards, and
\* whether engine.on_new_game was called
DelayedState_apply(st, engine) ==
    [st |-> [debug |-> NoValue, opts |-> NoValue, new_game |-> FALSE, position |-> NoValue],
     on_new_game |-> st.new_game,
     engine |-> [debug |-> IF st.debug /= NoValue THEN st.debug ELSE engine.debug,
                 opts |-> IF st.opts /= NoValue THEN st.opts ELSE engine.opts,
                 position |-> IF st.position /= NoValue THEN st.position ELSE engine.position]]

\* faulty variant: the guard and the stop command never reach a StopState
Weak_upgrade_none(w, alive) == NoStop

\* Weak::upgrade: the StopState, or NoStop when its Arc was dropped
Weak_upgrade(w, alive) == IF w \in alive THEN w ELSE NoStop

\* faulty variant: the flag is never written
searching_store_never(c, val) == c

\* searching.store(val, SeqCst)
searching_store(c, val) == [c EXCEPT !.searching = val]

\* the commands that change the engine's state, with their values
StateCommands ==
    {[name |-> n, val |-> v] : n \in {"debug", "setoption", "position"}, v \in SettingValues}
        \cup {[name |-> "ucinewgame", val |-> NoValue]}

\* st.set_*(..) of the command's handler
DelayedState_set(st, cmd) ==
    CASE cmd.name = "debug" -> DelayedState_set_debug(st, cmd.val)
      [] cmd.name = "setoption" -> DelayedState_set_opt(st, cmd.val)
      [] cmd.name = "ucinewgame" -> DelayedState_set_new_game(st)
      [] cmd.name = "position" -> DelayedState_set_position(st, cmd.val)

\* what the commands accepted so far ask the engine to hold; new_game says
\* that a ucinewgame is owed to the engine
Accept(acc, cmd) ==
    CASE cmd.name = "debug" -> [acc EXCEPT !.debug = cmd.val]
      [] cmd.name = "setoption" -> [acc EXCEPT !.opts = cmd.val]
      [] cmd.name = "ucinewgame" -> [acc EXCEPT !.new_game = TRUE]
      [] cmd.name = "position" -> [acc EXCEPT !.position = cmd.val]

InitComm ==
    /\ pos \in {Board_try_from(RawBoard_start).board}
    /\ stack = <<>>
    /\ game = 0
    /\ feature_slice = NoSlice
    /\ comm = [main |-> "read", search |-> "recv",
               searching |-> FALSE, engine_lock |-> "free", st_lock |-> "free",
               delayed_state |-> DelayedState_new,
               engine |-> [debug |-> 0, opts |-> 0, position |-> 0],
               accepted |-> [debug |-> 0, opts |-> 0, position |-> 0, new_game |-> FALSE],
               loaded |-> FALSE, started |-> 0, alive |-> {}, stopped |-> {},
               guard_stop |-> NoStop, go_open |-> TRUE, written |-> 0,
               go |-> "none", deferred |-> FALSE, panic |-> FALSE]
    /\ stops = NoStops
    /\ last = [op |-> "init", kind |-> KindNull, res |-> "Ok"]
    /\ draft = RawBoard_empty
    /\ edits = 0
    /\ vres = NotValidated
    /\ walk = NoWalk
    /\ text = NoText

CommStep(next) ==
    /\ comm' = next
    /\ UNCHANGED <<pos, stack, game, last, draft, edits, vres, walk, text, stops, feature_slice>>

\* Debug, SetOption, NewGame, Position: delayed_state.lock() and st.set_*
MainCommand(cmd) ==
    /\ comm.main = "read"
    /\ comm.st_lock = "free"
    /\ CommStep([comm EXCEPT !.st_lock = "main",
                             !.delayed_state = DelayedState_set(@, cmd),
                             !.accepted = Accept(@, cmd),
                             !.main = "cmd_load"])

\* try_apply_delayed_state: searching.load(SeqCst)
MainLoad ==
    /\ comm.main = "cmd_load"
    /\ CommStep([comm EXCEPT !.loaded = comm.searching, !.main = "cmd_apply"])

\* try_apply_delayed_state: delayed_state.apply(*engine.try_lock().unwrap())
MainTryApply ==
    /\ comm.main = "cmd_apply"
    /\ \E res \in {DelayedState_apply(comm.delayed_state, comm.engine)} :
          CommStep(IF comm.loaded THEN [comm EXCEPT !.main = "cmd_unlock"]
                   ELSE IF comm.engine_lock /= "free"
                   THEN [comm EXCEPT !.panic = TRUE, !.main = "panicked"]
                   ELSE [comm EXCEPT !.delayed_state = res.st,
                                     !.engine = res.engine,
                                     !.accepted.new_game = @ /\ ~res.on_new_game,
                                     !.main = "cmd_unlock"])

\* the end of the handler drops `st`
MainUnlock ==
    /\ comm.main = "cmd_unlock"
    /\ CommStep([comm EXCEPT !.st_lock = "free", !.main = "read"])

\* Go: searching.load(SeqCst) and the warning; `go` notes a command dropped
\* after the bestmove line of every search begun was written
MainGo ==
    /\ comm.main = "read"
    /\ comm.searching \/ comm.started < MaxSearches
    /\ CommStep(IF comm.searching
                THEN [comm EXCEPT !.go = IF comm.written = comm.started THEN "late" ELSE @]
                ELSE [comm EXCEPT !.main = "go_send"])

\* go_chan.send(constr) meets go_chan.recv() of the search thread
MainGoSend ==
    /\ comm.main = "go_send"
    /\ comm.search = "recv"
    /\ CommStep([comm EXCEPT !.main = "go_ack", !.search = "store_true"])

\* ack_chan.recv() meets ack_chan.send(Arc::downgrade(&stop_state));
\* guard.stop = stop
MainAck ==
    /\ comm.main = "go_ack"
    /\ comm.search = "ack_send"
    /\ CommStep([comm EXCEPT !.guard_stop = comm.started, !.main = "read", !.search = "search"])

\* Stop: searching.load(SeqCst)
MainStop ==
    /\ comm.main = "read"
    /\ comm.searching
    /\ CommStep([comm EXCEPT !.main = "stop_upgrade"])

\* Stop: guard.stop.upgrade() and stop.stop()
MainStopUpgrade ==
    /\ comm.main = "stop_upgrade"
    /\ \E stop \in {Weak_upgrade(comm.guard_stop, comm.alive)} :
          CommStep([comm EXCEPT !.stopped = IF stop /= NoStop THEN @ \cup {stop} ELSE @,
                                !.main = "read"])

\* Quit, or read_cmd returns None at the end of the input
MainQuit ==
    /\ comm.main = "read"
    /\ CommStep([comm EXCEPT !.main = "guard_drop"])

\* the scope's closure returns: `guard` is dropped and runs its closure
MainGuardDrop ==
    /\ comm.main = "guard_drop"
    /\ \E stop \in {Weak_upgrade(comm.guard_stop, comm.alive)} :
          CommStep([comm EXCEPT !.stopped = IF stop /= NoStop THEN @ \cup {stop} ELSE @,
                                !.main = "chan_drop"])

\* then `go_chan` is dropped
MainChanDrop ==
    /\ comm.main = "chan_drop"
    /\ CommStep([comm EXCEPT !.go_open = FALSE, !.main = "join"])

\* thread::scope joins the search thread and comm returns
MainJoin ==
    /\ comm.main = "join"
    /\ comm.search = "finished"
    /\ CommStep([comm EXCEPT !.main = "returned"])

\* searching.store(true, SeqCst)
SearchStoreTrue ==
    /\ comm.search = "store_true"
    /\ CommStep([searching_store(comm, TRUE) EXCEPT !.search = "eng_lock"])

\* engine.lock()
SearchEngLock ==
    /\ comm.search = "eng_lock"
    /\ comm.engine_lock = "free"
    /\ CommStep([comm EXCEPT !.engine_lock = "search", !.search = "new_stop"])

\* Arc::new(StopState::new())
SearchNewStop ==
    /\ comm.search = "new_stop"
    /\ CommStep([comm EXCEPT !.started = @ + 1, !.alive = @ \cup {comm.started + 1},
                             !.search = "ack_send"])

\* engine.search returns of its own accord
SearchFinish ==
    /\ comm.search = "search"
    /\ comm.started \notin comm.stopped
    /\ CommStep([comm EXCEPT !.search = "drop_stop"])

\* engine.search returns because its StopState was stopped
SearchStopped ==
    /\ comm.search = "search"
    /\ comm.started \in comm.stopped
    /\ CommStep([comm EXCEPT !.search = "drop_stop"])

\* drop(stop_state)
SearchDropStop ==
    /\ comm.search = "drop_stop"
    /\ CommStep([comm EXCEPT !.alive = @ \ {comm.started}, !.search = "bestmove"])

\* io::write_msg(&Message::BestMove(res), *output)
SearchBestMove ==
    /\ comm.search = "bestmove"
    /\ CommStep([comm EXCEPT !.written = @ + 1, !.search = "st_lock"])

\* delayed_state.lock()
SearchStLock ==
    /\ comm.search = "st_lock"
    /\ comm.st_lock = "free"
    /\ CommStep([comm EXCEPT !.st_lock = "search", !.search = "apply"])

\* st.apply(*engine)
SearchApply ==
    /\ comm.search = "apply"
    /\ \E res \in {DelayedState_apply(comm.delayed_state, comm.engine)} :
          CommStep([comm EXCEPT !.delayed_state = res.st,
                                !.engine = res.engine,
                                !.accepted.new_game = @ /\ ~res.on_new_game,
                                !.deferred = comm.delayed_state /= DelayedState_new,
                                !.search = "eng_drop"])

\* drop(engine)
SearchEngDrop ==
    /\ comm.search = "eng_drop"
    /\ CommStep([comm EXCEPT !.engine_lock = "free", !.search = "store_false"])

\* searching.store(false, SeqCst)
SearchStoreFalse ==
    /\ comm.search = "store_false"
    /\ CommStep([searching_store(comm, FALSE) EXCEPT !.search = "st_drop"])

\* drop(st), and back to go_chan.recv()
SearchStDrop ==
    /\ comm.search = "st_drop"
    /\ CommStep([comm EXCEPT !.st_lock = "free", !.search = "recv"])

\* go_chan.recv() fails once the sender is dropped; the thread returns Ok(())
SearchRecvClosed ==
    /\ comm.search = "recv"
    /\ ~comm.go_open
    /\ CommStep([comm EXCEPT !.search = "finished"])

MainTeardown == MainGuardDrop \/ MainChanDrop \/ MainJoin

SearchThread ==
    \/ SearchStoreTrue
    \/ SearchEngLock
    \/ SearchNewStop
    \/ SearchStopped
    \/ SearchDropStop
    \/ SearchBestMove
    \/ SearchStLock
    \/ SearchApply
    \/ SearchEngDrop
    \/ SearchStoreFalse
    \/ SearchStDrop
    \/ SearchRecvClosed

NextComm ==
    \/ \E cmd \in StateCommands : MainCommand(cmd)
    \/ MainLoad
    \/ MainTryApply
    \/ MainUnlock
    \/ MainGo
    \/ MainGoSend
    \/ MainAck
    \/ MainStop
    \/ MainStopUpgrade
    \/ MainQuit
    \/ MainTeardown
    \/ SearchFinish
    \/ SearchThread

SpecComm == InitComm /\ [][NextComm]_vars

\* the search thread and the return of comm's scope are scheduled; a search
\* that was stopped returns; commands and a search's own return are not owed
SpecCommFair == SpecComm /\ WF_vars(MainTeardown) /\ WF_vars(SearchThread)

\* what the accepted commands ask for is not yet in the engine
Pending(c) ==
    \/ c.accepted.new_game
    \/ c.engine /= [debug |-> c.accepted.debug, opts |-> c.accepted.opts,
                    position |-> c.accepted.position]

\* C33: the try_lock of try_apply_delayed_state finds the engine mutex free
\* (its unwrap never panics): it is made only while the search thread waits in
\* go_chan.recv(); the engine mutex is held from before a StopState exists
\* until after it is dropped, with `searching` set, and at most one search
\* (one live StopState) exists at a time.
C33_TryLockSucceeds ==
    /\ ~comm.panic
    /\ (comm.main = "cmd_apply" /\ ~comm.loaded) =>
           comm.engine_lock = "free" /\ comm.search = "recv"
    /\ Cardinality(comm.alive) <= 1
    /\ comm.alive \subseteq {comm.started}
    /\ (comm.alive /= {} \/ comm.search \in {"ack_send", "search", "drop_stop", "bestmove", "st_lock", "apply"}) =>
           comm.engine_lock = "search" /\ comm.searching

\* a command is applied by the main thread after a search has written its
\* bestmove and cleared `searching`
C33_Witness ==
    /\ comm.main = "cmd_unlock"
    /\ ~comm.loaded
    /\ comm.written = 1
    /\ ~Pending(comm)
    /\ comm.accepted.position = 1

Signalled == comm'.stopped /= comm.stopped

C37_GoAfterBestmove == comm.go /= "late"

\* ================================================== eval: EvalBoard
\* The feature slice is kept as the number of times each input (cell, square)
\* was counted, for the inputs whose count is not 0: the model's update adds
\* delta times the input's weight, so a slice is the sum the counts give,
\* whatever the weights are.
Inputs == 0 .. (64 * CellCount - 1)

Count(fs, i) == IF i \in DOMAIN fs THEN fs[i] ELSE 0

\* PSQFeatureLayer::input_index
input_index(cell, sq) == cell * 64 + sq

\* model.init
Model_init == [i \in {} |-> 0]

\* model.update(&mut feature_slice, cell, sq, delta)
Model_update(fs, cell, sq, delta) ==
    LET i == input_index(cell, sq)
        new == Count(fs, i) + delta
    IN IF new = 0 THEN [j \in DOMAIN fs \ {i} |-> fs[j]]
       ELSE [j \in DOMAIN fs \cup {i} |-> IF j = i THEN new ELSE fs[j]]

\* the body of build's loop for one square
build_sq(fs, board, sq) ==
    IF Board_get(board, sq) /= CellNone
    THEN Model_update(fs, Board_get(board, sq), sq, 1)
    ELSE fs

\* build's loop over the squares lo..hi in index order, the second half run
\* on the value the first half gives
RECURSIVE build_loop(_, _, _, _)
build_loop(fs, board, lo, hi) ==
    IF lo = hi THEN build_sq(fs, board, lo)
    ELSE LET half == (lo + hi) \div 2
         IN CHOOSE out \in {build_loop(left, board, half + 1, hi) :
                                left \in {build_loop(fs, board, lo, half)}} : TRUE

\* EvalBoard::build
EvalBoard_build(board) == build_loop(Model_init, board, 0, 63)

\* the closure basic_update of make_move
basic_update(fs, src_cell, dst_cell, mv) ==
    Model_update(Model_update(fs, src_cell, mv.src, -1), dst_cell, mv.dst, -1)

\* the castling arms of make_move: the king from e to king_file, the rook
\* from rook_file to rook_dst
eval_castling(fs, side, king_file, rook_file, rook_dst) ==
    LET king == Cell_make(side, King)
        rook == Cell_make(side, Rook)
        rank == castling_rank(side)
        a == Model_update(fs, king, Sq_make(FileE, rank), -1)
        b == Model_update(a, king, Sq_make(king_file, rank), 1)
        c == Model_update(b, rook, Sq_make(rook_file, rank), -1)
    IN Model_update(c, rook, Sq_make(rook_dst, rank), 1)

\* the PawnDouble arm of make_move
eval_pawn_double(fs, board, mv) ==
    LET pawn == Cell_make(inv(board.r.side), Pawn)
    IN Model_update(basic_update(fs, pawn, CellNone, mv), pawn, mv.dst, 1)

\* the Enpassant arm of make_move
eval_enpassant(fs, board, mv) ==
    LET pawn == Cell_make(inv(board.r.side), Pawn)
        enemy_pawn == Cell_make(board.r.side, Pawn)
        a == Model_update(basic_update(fs, pawn, CellNone, mv), pawn, mv.dst, 1)
    IN Model_update(a, enemy_pawn, mv.dst + pawn_forward_delta(board.r.side), 1)

\* EvalBoard::make_move after the board has made the move: `board` is the
\* board after it, board_undo its RawUndo, fs the slice before it
EvalBoard_make_move(fs, board, board_undo, mv) ==
    LET side == inv(board.r.side)
        pawn == Cell_make(side, Pawn)
    IN CASE mv.kind = KindSimple ->
              Model_update(basic_update(fs, Board_get(board, mv.dst), board_undo.dst_cell, mv),
                           Board_get(board, mv.dst), mv.dst, 1)
         [] mv.kind = KindPawnSimple ->
              Model_update(basic_update(fs, pawn, board_undo.dst_cell, mv), pawn, mv.dst, 1)
         [] mv.kind = KindPawnDouble -> eval_pawn_double(fs, board, mv)
         [] mv.kind \in PromoteKinds ->
              Model_update(basic_update(fs, pawn, board_undo.dst_cell, mv),
                           Board_get(board, mv.dst), mv.dst, 1)
         [] mv.kind = KindCastlingKingside -> eval_castling(fs, side, FileG, FileH, FileF)
         [] mv.kind = KindCastlingQueenside -> eval_castling(fs, side, FileC, FileA, FileD)
         [] mv.kind = KindNull -> fs
         [] mv.kind = KindEnpassant -> eval_enpassant(fs, board, mv)

InitEval ==
    /\ pos \in InitBoards
    /\ stack = <<>>
    /\ game = 0
    /\ feature_slice = EvalBoard_build(pos)
    /\ comm = NoComm
    /\ stops = NoStops
    /\ last = [op |-> "init", kind |-> KindNull, res |-> "Ok"]
    /\ draft = RawBoard_empty
    /\ edits = 0
    /\ vres = NotValidated
    /\ walk = NoWalk
    /\ text = NoText

\* EvalBoard::make_move of a legal move (try_make_move_unchecked gives Some)
EvalMake(mv) ==
    /\ Len(stack) < MaxPly
    /\ pos' = make_move_unchecked(pos, mv)
    /\ stack' = Append(stack, [mv |-> mv, u |-> RawUndo_of(pos, mv), before |-> pos,
                               feature_slice |-> feature_slice])
    /\ feature_slice' = EvalBoard_make_move(feature_slice, pos', RawUndo_of(pos, mv), mv)
    /\ last' = [op |-> "make", kind |-> mv.kind, res |-> "Ok"]
    /\ UNCHANGED <<game, draft, edits, vres, walk, text, comm, stops>>

EvalMakeMove(mv) ==
    /\ Move_validate(mv, pos) = "Ok"
    /\ EvalMake(mv)

\* EvalBoard::make_move(Move::NULL), done when the side to move is not in check
EvalMakeNull ==
    /\ ~Board_is_check(pos)
    /\ EvalMake(Move_NULL)

\* EvalBoard::unmake_move
EvalUnmake ==
    /\ stack /= <<>>
    /\ LET top == stack[Len(stack)]
       IN /\ pos' = unmake_move_unchecked(pos, top.mv, top.u)
          /\ feature_slice' = top.feature_slice
          /\ last' = [op |-> "unmake", kind |-> top.mv.kind, res |-> "Ok"]
    /\ stack' = SubSeq(stack, 1, Len(stack) - 1)
    /\ UNCHANGED <<game, draft, edits, vres, walk, text, comm, stops>>

NextEval ==
    \/ \E mv \in CandidateMoves(pos) : EvalMakeMove(mv)
    \/ EvalMakeNull
    \/ EvalUnmake

SpecEval == InitEval /\ [][NextEval]_vars

\* the inputs of pieces: build never counts an empty square
PieceInputs == {i \in Inputs : i >= 64}

SameOnPieces(fs, gs) ==
    \A i \in (DOMAIN fs \cup DOMAIN gs) \cap PieceInputs : Count(fs, i) = Count(gs, i)

\* C38: after make_move of a legal move the feature slice counts every piece
\* as build() does for the board reached, and after unmake_move it is the
\* slice that was there before the move.
C38_SliceIncremental ==
    /\ []SameOnPieces(feature_slice, EvalBoard_build(pos))
    /\ [][(last'.op = "unmake" /\ stack' /= stack) =>
                 feature_slice' = stack[Len(stack)].feature_slice]_vars

\* the same with en passant left out: the slice built from a correct slice by
\* a move of any other kind counts every piece as build() does
C38_ExceptEnpassant ==
    [][(last'.op = "make" /\ stack' /= stack /\ MadeMove.kind /= KindEnpassant
            /\ SameOnPieces(feature_slice, EvalBoard_build(pos)))
          => SameOnPieces(feature_slice', EvalBoard_build(pos'))]_vars

\* ================================================== eval: ScorePair
\* An i32 is kept as its two 16-bit halves: hi is the value shifted right by
\* 16 (signed), lo the low 16 bits (unsigned); the value is hi * 2^16 + lo.
I16 == 32768

\* `as i16`: the low 16 bits, read as a signed number
as_i16(x) == LET m == x % (2 * I16) IN IF m >= I16 THEN m - 2 * I16 ELSE m

InI16(x) == -I16 <= x /\ x < I16

\* the i32 of an i16: `as i32`
i32_from(x) == [hi |-> x \div (2 * I16), lo |-> x % (2 * I16)]

\* i32 + i32 and i32 - i32, before the test of the width
i32_add(a, b) ==
    [hi |-> a.hi + b.hi + (a.lo + b.lo) \div (2 * I16), lo |-> (a.lo + b.lo) % (2 * I16)]

i32_sub(a, b) ==
    [hi |-> a.hi - b.hi + (a.lo - b.lo) \div (2 * I16), lo |-> (a.lo - b.lo) % (2 * I16)]

\* the value fits in an i32
fits_i32(x) == InI16(x.hi)

\* ScorePair::new: f as i32 + (s as i32) * (1 << 16)
ScorePair_new(f, s) == i32_add(i32_from(f), [hi |-> s, lo |-> 0])

\* ScorePair::first
ScorePair_first(p) == as_i16(p.lo)

\* ScorePair::second: `>> 16` gives the high half
ScorePair_second(p) ==
    LET res == p.hi
    IN as_i16(IF ScorePair_first(p) < 0 THEN res - 1 ELSE res)

\* the scores tried: the limits of i16, values around 0 and two in between
ScoreValues == {-I16, -300, -1, 0, 1, 300, I16 - 1}

\* a slice whose score is ScorePair::new(f, s); f and s are kept beside it
InitScore ==
    /\ pos = Board_try_from(RawBoard_start).board
    /\ stack = <<>>
    /\ game = 0
    /\ \E f \in ScoreValues, s \in ScoreValues :
          /\ fits_i32(ScorePair_new(f, s))
          /\ feature_slice = [score |-> ScorePair_new(f, s), f |-> f, s |-> s]
    /\ comm = NoComm
    /\ stops = NoStops
    /\ last = [op |-> "new", kind |-> KindNull, res |-> "Ok"]
    /\ draft = RawBoard_empty
    /\ edits = 0
    /\ vres = NotValidated
    /\ walk = NoWalk
    /\ text = NoText

\* features.score += pair, for a pair that keeps both sums within 16 bits
ScoreAdd(g, t) ==
    /\ last.op = "new"
    /\ InI16(feature_slice.f + g) /\ InI16(feature_slice.s + t)
    /\ fits_i32(ScorePair_new(g, t))
    /\ fits_i32(i32_add(feature_slice.score, ScorePair_new(g, t)))
    /\ feature_slice' = [score |-> i32_add(feature_slice.score, ScorePair_new(g, t)),
                         f |-> feature_slice.f + g, s |-> feature_slice.s + t]
    /\ last' = [op |-> "add", kind |-> KindNull, res |-> "Ok"]
    /\ UNCHANGED <<pos, stack, game, draft, edits, vres, walk, text, comm, stops>>

\* features.score -= pair, for a pair that keeps both differences within 16 bits
ScoreSub(g, t) ==
    /\ last.op = "new"
    /\ InI16(feature_slice.f - g) /\ InI16(feature_slice.s - t)
    /\ fits_i32(ScorePair_new(g, t))
    /\ fits_i32(i32_sub(feature_slice.score, ScorePair_new(g, t)))
    /\ feature_slice' = [score |-> i32_sub(feature_slice.score, ScorePair_new(g, t)),
                         f |-> feature_slice.f - g, s |-> feature_slice.s - t]
    /\ last' = [op |-> "sub", kind |-> KindNull, res |-> "Ok"]
    /\ UNCHANGED <<pos, stack, game, draft, edits, vres, walk, text, comm, stops>>

NextScore ==
    \/ \E g \in ScoreValues, t \in ScoreValues : ScoreAdd(g, t)
    \/ \E g \in ScoreValues, t \in ScoreValues : ScoreSub(g, t)

SpecScore == InitScore /\ [][NextScore]_vars

\* C39: first() and second() of a pair give back the two scores it was made
\* of, also when the first is negative, and still do after a pair was added
\* or subtracted with both component sums within 16 bits.
C39_PackLossless ==
    /\ ScorePair_first(feature_slice.score) = feature_slice.f
    /\ ScorePair_second(feature_slice.score) = feature_slice.s

\* the same for pairs whose first score is not negative
C39_NonNegativeFirst ==
    feature_slice.f >= 0 =>
        /\ ScorePair_first(feature_slice.score) = feature_slice.f
        /\ ScorePair_second(feature_slice.score) = feature_slice.s

\* what second() gives when the first score is negative
C39_NegativeFirst ==
    feature_slice.f < 0 =>
        /\ ScorePair_first(feature_slice.score) = feature_slice.f
        /\ ScorePair_second(feature_slice.score) = as_i16(feature_slice.s - 2)

\* ================================================== uci::io: calc_nps
NoNps == [some |-> FALSE, val |-> 0]

\* calc_nps(nodes, time), with us = time.as_micros()
calc_nps(nodes, us) ==
    IF us < 10000 THEN NoNps
    ELSE LET npus == nodes \div us
             nps == (npus + 500000) \div 1000000
         IN [some |-> TRUE, val |-> nps]

\* write_msg of Info::Nodes: the words of the line written
write_msg_nodes(nodes, us) ==
    LET nps == calc_nps(nodes, us)
    IN <<"info", "time", us \div 1000, "nodes", nodes>>
           \o (IF nps.some THEN <<"nps", nps.val>> ELSE <<>>)

RECURSIVE gcd(_, _)
gcd(a, b) == IF b = 0 THEN a ELSE gcd(b, a % b)

\* nodes * 1_000_000 / us rounded to the nearest integer, worked out on the
\* fraction in lowest terms
NodesPerSecond(nodes, us) ==
    LET g == gcd(1000000, us)
        num == nodes * (1000000 \div g)
        den == us \div g
    IN (2 * num + den) \div (2 * den)

\* the node counts and the times in microseconds tried
NpsNodes == {0, 1, 7, 500, 4999, 20000, 1000000, 2000000, 3500000, 123456789}
NpsMicros == {0, 1, 9999, 10000, 12345, 15625, 250000, 1000000, 1500000, 3000000, 60000000}

\* the largest numerator NodesPerSecond is worked out with
MaxNumerator == 1000000000

InitNps ==
    /\ pos = Board_try_from(RawBoard_start).board
    /\ stack = <<>>
    /\ game = 0
    /\ feature_slice = NoSlice
    /\ comm = NoComm
    /\ stops = NoStops
    /\ \E nodes \in NpsNodes, us \in NpsMicros :
          /\ us >= 10000 => nodes <= MaxNumerator \div (1000000 \div gcd(1000000, us))
          /\ last = [op |-> "init", kind |-> KindNull, res |-> [nodes |-> nodes, us |-> us]]
    /\ draft = RawBoard_empty
    /\ edits = 0
    /\ vres = NotValidated
    /\ walk = NoWalk
    /\ text = NoText

\* calc_nps on the node count and the time
CalcNps ==
    /\ last.op = "init"
    /\ last' = [op |-> "calc_nps", kind |-> KindNull,
                res |-> [nodes |-> last.res.nodes, us |-> last.res.us,
                         nps |-> calc_nps(last.res.nodes, last.res.us)]]
    /\ UNCHANGED <<pos, stack, game, draft, edits, vres, walk, text, comm, stops, feature_slice>>

\* write_msg(&Message::Info(Info::Nodes { time, nodes }), w)
WriteNodes ==
    /\ last.op = "init"
    /\ text' = write_msg_nodes(last.res.nodes, last.res.us)
    /\ last' = [op |-> "write_msg", kind |-> KindNull,
                res |-> [nodes |-> last.res.nodes, us |-> last.res.us]]
    /\ UNCHANGED <<pos, stack, game, draft, edits, vres, walk, comm, stops, feature_slice>>

NextNps ==
    \/ CalcNps
    \/ WriteNodes

SpecNps == InitNps /\ [][NextNps]_vars

\* C40: calc_nps gives None below 10 ms and otherwise
\* nodes * 1_000_000 / microseconds rounded to the nearest integer, which is
\* also what the nps field of the line written holds; 2_000_000 nodes in one
\* second give 2_000_000.
C40_NodesPerSecond ==
    /\ last.op = "calc_nps" =>
          IF last.res.us < 10000 THEN ~last.res.nps.some
          ELSE /\ last.res.nps.some
               /\ last.res.nps.val = NodesPerSecond(last.res.nodes, last.res.us)
    /\ last.op = "write_msg" =>
          IF last.res.us < 10000 THEN Len(text) = 5
          ELSE Len(text) = 7 /\ text[7] = NodesPerSecond(last.res.nodes, last.res.us)

\* what calc_nps gives: None below 10 ms, and otherwise the whole number of
\* nodes per microsecond, plus 500_000, divided by 1_000_000
C40_AsComputed ==
    last.op = "calc_nps" =>
        IF last.res.us < 10000 THEN ~last.res.nps.some
        ELSE /\ last.res.nps.some
             /\ last.res.nps.val = ((last.res.nodes \div last.res.us) + 500000) \div 1000000
             /\ last.res.nps.val = 0

====
